---- MODULE Spec2Model ----
(***************************************************************************)
(* Model of the gen-id crate (crates/utils/gen-id): the hash primitives,   *)
(* the OS metadata codec in its two variants, the UUID generator and the   *)
(* UUID parser.                                                            *)
(*                                                                         *)
(* Representation.  A byte is a natural below 256.  A Uuid is a function   *)
(* from 0..15 to bytes (uuid.as_bytes()).  A String is a sequence of       *)
(* one-character strings; Code gives the byte of a character.  A u32 is a  *)
(* record of two 16-bit limbs [hi, lo] and a millisecond time stamp (u64   *)
(* below 2^48) is a record of two 24-bit limbs [hi, lo], because the       *)
(* values do not fit the integers of the model checker.                    *)
(***************************************************************************)
EXTENDS Integers, Sequences, FiniteSets, TLC

VARIABLES
    clock,      \* wall clock read by Uuid::now_v7, milliseconds, 48 bits
    gen,        \* the UuidGenerator value (self): version, format, prefix
    out,        \* the generate()/generate_with_metadata() call under observation
    uuids,      \* Vec<String> collected by a generation loop, with the clock of each push
    parsed,     \* the parse_uuid_with_metadata() call on its result
    ticks,      \* number of times the generation loop has slept
    arg,        \* input of the pure function under check
    ret         \* results of the pure function under check

vars == <<clock, gen, out, uuids, parsed, ticks, arg, ret>>

\* Option<T>: None is the empty tuple and Some(x) the tuple of x
None == <<>>
Some(x) == <<x>>
Unwrap(o) == o[1]

(***************************************************************************)
(* Bounds of the model.                                                    *)
(***************************************************************************)
MaxUuids == 2        \* identifiers pushed by a generation loop
MaxSeed == 1         \* outputs of the random source, numbered 0..MaxSeed
MaxMajor == 33       \* major versions 0..MaxMajor given to the codec, beside the high samples
MaxBatch == 3        \* the largest count given to a batch call
MaxThreads == 2      \* threads that share one generator and one record
MaxChain == 3        \* builder calls chained on one generator
MaxStrLen == 3       \* the longest string enumerated letter by letter for the hashes
MaxTokens == 3       \* the most decoration tokens an input text of the normalizer is built from
MaxMinor == 17       \* minor versions 0..MaxMinor given to the codec, beside the high samples

(***************************************************************************)
(* Bit operations on naturals of a given width.                            *)
(***************************************************************************)
Pow2(n) == 2 ^ n

RECURSIVE BitAnd(_, _)
BitAnd(a, b) ==
    IF a = 0 \/ b = 0 THEN 0
    ELSE (IF a % 2 = 1 /\ b % 2 = 1 THEN 1 ELSE 0) + 2 * BitAnd(a \div 2, b \div 2)

RECURSIVE BitOr(_, _)
BitOr(a, b) ==
    IF a = 0 THEN b
    ELSE IF b = 0 THEN a
    ELSE (IF a % 2 = 1 \/ b % 2 = 1 THEN 1 ELSE 0) + 2 * BitOr(a \div 2, b \div 2)

RECURSIVE BitXor(_, _)
BitXor(a, b) ==
    IF a = 0 THEN b
    ELSE IF b = 0 THEN a
    ELSE (IF a % 2 # b % 2 THEN 1 ELSE 0) + 2 * BitXor(a \div 2, b \div 2)

\* x >> n
Shr(x, n) == x \div Pow2(n)

\* x << n in an unsigned integer of w bits (bits shifted out are lost)
Shl(x, n, w) == (x * Pow2(n)) % Pow2(w)

\* x as u8
AsU8(x) == x % 256

Bytes == 0..255

(***************************************************************************)
(* Characters.  Printable is the ASCII range 32..126 in order, so the      *)
(* byte of a character is 31 plus its position.  The double quote, the     *)
(* backslash and the backtick are written by name.                         *)
(***************************************************************************)
Printable ==
    << " ", "!", "DQUOTE", "#", "$", "%", "&", "'", "(", ")", "*", "+", ",", "-", ".", "/",
       "0", "1", "2", "3", "4", "5", "6", "7", "8", "9", ":", ";", "<", "=", ">", "?",
       "@", "A", "B", "C", "D", "E", "F", "G", "H", "I", "J", "K", "L", "M", "N", "O",
       "P", "Q", "R", "S", "T", "U", "V", "W", "X", "Y", "Z", "[", "BACKSLASH", "]", "^", "_",
       "BACKTICK", "a", "b", "c", "d", "e", "f", "g", "h", "i", "j", "k", "l", "m", "n", "o",
       "p", "q", "r", "s", "t", "u", "v", "w", "x", "y", "z", "{", "|", "}", "~" >>

CodeOf == [c \in {Printable[i] : i \in 1..Len(Printable)} |->
              31 + (CHOOSE i \in 1..Len(Printable) : Printable[i] = c)]

Code(c) == CodeOf[c]

CharOf(b) == Printable[b - 31]

\* str::bytes()
StrBytes(s) == [i \in 1..Len(s) |-> Code(s[i])]

\* String comparison (Ord for str): byte-wise lexicographic, a proper prefix is smaller
RECURSIVE StrLess(_, _)
StrLess(s, t) ==
    IF t = <<>> THEN FALSE
    ELSE IF s = <<>> THEN TRUE
    ELSE IF Code(Head(s)) # Code(Head(t)) THEN Code(Head(s)) < Code(Head(t))
    ELSE StrLess(Tail(s), Tail(t))

\* char::to_uppercase on ASCII text
UpperChar(c) == IF Code(c) >= 97 /\ Code(c) <= 122 THEN CharOf(Code(c) - 32) ELSE c

\* str::to_uppercase
ToUppercase(s) == [i \in 1..Len(s) |-> UpperChar(s[i])]

StartsWith(s, p) == Len(s) >= Len(p) /\ SubSeq(s, 1, Len(p)) = p

EndsWith(s, p) == Len(s) >= Len(p) /\ SubSeq(s, Len(s) - Len(p) + 1, Len(s)) = p

(***************************************************************************)
(* u32 arithmetic on two 16-bit limbs.                                     *)
(***************************************************************************)
U32(x) == [hi |-> (x \div 65536) % 65536, lo |-> x % 65536]

\* u32 << n for n < 16
U32Shl(h, n) ==
    [hi |-> (h.hi * Pow2(n) + (h.lo * Pow2(n)) \div 65536) % 65536,
     lo |-> (h.lo * Pow2(n)) % 65536]

\* u32 >> 16
U32Shr16(h) == [hi |-> 0, lo |-> h.hi]

\* u32::wrapping_add
WrappingAdd(a, b) ==
    [hi |-> (a.hi + b.hi + (a.lo + b.lo) \div 65536) % 65536,
     lo |-> (a.lo + b.lo) % 65536]

U32Xor(a, b) == [hi |-> BitXor(a.hi, b.hi), lo |-> BitXor(a.lo, b.lo)]

\* x as u16, for a u32 x
U32AsU16(h) == h.lo

\* u32::to_be_bytes
ToBeBytes(h) == <<h.hi \div 256, h.hi % 256, h.lo \div 256, h.lo % 256>>

\* u32::from_be_bytes
U32FromBeBytes(b) == [hi |-> b[1] * 256 + b[2], lo |-> b[3] * 256 + b[4]]

(***************************************************************************)
(* Hash primitives (uuid/metadata.rs; metadata.rs has the same bodies).    *)
(***************************************************************************)
\* mutant: without the addition of hash, which makes the multiplier 32
HashStepNoAdd(hash, byte) == WrappingAdd(U32Shl(hash, 5), U32(byte))

\* mutant: hash << 4, which makes the multiplier 17
HashStepShift4(hash, byte) == WrappingAdd(WrappingAdd(U32Shl(hash, 4), hash), U32(byte))

\* one round of the loop: hash = ((hash << 5).wrapping_add(hash)).wrapping_add(byte as u32)
HashStep(hash, byte) == WrappingAdd(WrappingAdd(U32Shl(hash, 5), hash), U32(byte))

\* for byte in input.bytes(), from the i-th byte on; the test on next makes the
\* accumulator a value before the next round
RECURSIVE HashLoop(_, _, _)
HashLoop(hash, bytes, i) ==
    IF i > Len(bytes) THEN hash
    ELSE LET next == HashStep(hash, bytes[i])
         IN  IF next.lo >= 0 THEN HashLoop(next, bytes, i + 1) ELSE next

hash_to_u32(input) == HashLoop(U32(5381), StrBytes(input), 1)

hash_to_u16(input) ==
    LET hash == HashLoop(U32(5381), StrBytes(input), 1)
    IN  U32AsU16(U32Xor(hash, U32Shr16(hash)))

(***************************************************************************)
(* OsType and the OS metadata codec.  The definitions without suffix model *)
(* uuid/metadata.rs (3 bits type, 5 bits major, 4 bits minor); the ones    *)
(* with suffix Flat model metadata.rs (4 bits type, 4 + 4 bits version).   *)
(***************************************************************************)
OsType == {"Linux", "Windows", "MacOS", "Android", "IOS"}

\* OsType::encode: self as u8
OsTypeEncode(os_type) ==
    CASE os_type = "Linux" -> 1
      [] os_type = "Windows" -> 2
      [] os_type = "MacOS" -> 3
      [] os_type = "Android" -> 4
      [] os_type = "IOS" -> 5

\* the match of OsType::decode on the masked value
OsTypeMatch(v) ==
    CASE v = 1 -> "Linux"
      [] v = 2 -> "Windows"
      [] v = 3 -> "MacOS"
      [] v = 4 -> "Android"
      [] v = 5 -> "IOS"
      [] OTHER -> "Linux"

\* mutant: a 2-bit mask
OsTypeDecodeMask3(value) == OsTypeMatch(BitAnd(value, 3))

OsTypeDecode(value) == OsTypeMatch(BitAnd(value, 7))

OsTypeDecodeFlat(value) == OsTypeMatch(BitAnd(value, 15))

\* mutant: the type shifted by 8 as in the other variant
encode_os_metadata_shift8(os_type, os_version) ==
    LET type_bits == Shl(OsTypeEncode(os_type), 8, 16)
        major_bits == Shl(BitAnd(os_version[1], 31), 4, 16)
        minor_bits == BitAnd(os_version[2], 15)
    IN  BitOr(BitOr(type_bits, major_bits), minor_bits)

encode_os_metadata(os_type, os_version) ==
    LET type_bits == Shl(OsTypeEncode(os_type), 9, 16)
        major_bits == Shl(BitAnd(os_version[1], 31), 4, 16)
        minor_bits == BitAnd(os_version[2], 15)
    IN  BitOr(BitOr(type_bits, major_bits), minor_bits)

\* mutant: the major masked to 4 bits as in the other variant
decode_os_metadata_mask4(encoded) ==
    LET os_type == OsTypeDecode(AsU8(Shr(encoded, 9)))
        major == AsU8(BitAnd(Shr(encoded, 4), 15))
        minor == AsU8(BitAnd(encoded, 15))
    IN  <<os_type, <<major, minor>>>>

decode_os_metadata(encoded) ==
    LET os_type == OsTypeDecode(AsU8(Shr(encoded, 9)))
        major == AsU8(BitAnd(Shr(encoded, 4), 31))
        minor == AsU8(BitAnd(encoded, 15))
    IN  <<os_type, <<major, minor>>>>

\* mutant: the type shifted by 9 as in the other variant
encode_os_metadata_flat_shift9(os_type, os_version) ==
    LET type_bits == Shl(OsTypeEncode(os_type), 9, 16)
        version_bits == BitOr(Shl(BitAnd(os_version[1], 15), 4, 16),
                              BitAnd(os_version[2], 15))
    IN  BitOr(type_bits, version_bits)

encode_os_metadata_flat(os_type, os_version) ==
    LET type_bits == Shl(OsTypeEncode(os_type), 8, 16)
        version_bits == BitOr(Shl(BitAnd(os_version[1], 15), 4, 16),
                              BitAnd(os_version[2], 15))
    IN  BitOr(type_bits, version_bits)

decode_os_metadata_flat(encoded) ==
    LET os_type == OsTypeDecodeFlat(AsU8(Shr(encoded, 8)))
        major == AsU8(BitAnd(Shr(encoded, 4), 15))
        minor == AsU8(BitAnd(encoded, 15))
    IN  <<os_type, <<major, minor>>>>

(***************************************************************************)
(* The uuid crate primitives.  rnd is the output of the random source for  *)
(* the call, one byte per position; clk is the clock reading.              *)
(***************************************************************************)
\* mutant: the time stamp in little-endian order
TimestampByteLittleEndian(clk, i) ==
    CASE i = 5 -> clk.hi \div 65536
      [] i = 4 -> (clk.hi \div 256) % 256
      [] i = 3 -> clk.hi % 256
      [] i = 2 -> clk.lo \div 65536
      [] i = 1 -> (clk.lo \div 256) % 256
      [] i = 0 -> clk.lo % 256

\* big-endian bytes of the 48-bit millisecond time stamp
TimestampByte(clk, i) ==
    CASE i = 0 -> clk.hi \div 65536
      [] i = 1 -> (clk.hi \div 256) % 256
      [] i = 2 -> clk.hi % 256
      [] i = 3 -> clk.lo \div 65536
      [] i = 4 -> (clk.lo \div 256) % 256
      [] i = 5 -> clk.lo % 256

\* Uuid::now_v7(): time stamp, version 7, variant 10, the rest random
now_v7(clk, rnd) ==
    [i \in 0..15 |->
        IF i <= 5 THEN TimestampByte(clk, i)
        ELSE IF i = 6 THEN BitOr(112, BitAnd(rnd[6], 15))
        ELSE IF i = 8 THEN BitOr(128, BitAnd(rnd[8], 63))
        ELSE rnd[i]]

\* Uuid::new_v4(): version 4, variant 10, the rest random
new_v4(rnd) ==
    [i \in 0..15 |->
        IF i = 6 THEN BitOr(64, BitAnd(rnd[6], 15))
        ELSE IF i = 8 THEN BitOr(128, BitAnd(rnd[8], 63))
        ELSE rnd[i]]

HexDigits == <<"0", "1", "2", "3", "4", "5", "6", "7", "8", "9", "a", "b", "c", "d", "e", "f">>

\* mutant: the low nibble written first
HexByteLowFirst(b) == <<HexDigits[(b % 16) + 1], HexDigits[(b \div 16) + 1]>>

HexByte(b) == <<HexDigits[(b \div 16) + 1], HexDigits[(b % 16) + 1]>>

RECURSIVE HexRange(_, _, _)
HexRange(uuid, from, to) ==
    IF from > to THEN <<>> ELSE HexByte(uuid[from]) \o HexRange(uuid, from + 1, to)

\* uuid.simple().to_string()
Simple(uuid) == HexRange(uuid, 0, 15)

\* uuid.hyphenated().to_string()
Hyphenated(uuid) ==
    HexRange(uuid, 0, 3) \o <<"-">> \o HexRange(uuid, 4, 5) \o <<"-">> \o
    HexRange(uuid, 6, 7) \o <<"-">> \o HexRange(uuid, 8, 9) \o <<"-">> \o
    HexRange(uuid, 10, 15)

\* value of a hexadecimal digit of either case, -1 for any other character
HexVal(c) ==
    IF Code(c) >= 48 /\ Code(c) <= 57 THEN Code(c) - 48
    ELSE IF Code(c) >= 97 /\ Code(c) <= 102 THEN Code(c) - 87
    ELSE IF Code(c) >= 65 /\ Code(c) <= 70 THEN Code(c) - 55
    ELSE -1

ParseErr == [ok |-> FALSE]

\* 32 hexadecimal digits
parse_simple(s) ==
    IF Len(s) = 32 /\ \A i \in 1..32 : HexVal(s[i]) >= 0
    THEN [ok |-> TRUE,
          value |-> [i \in 0..15 |-> HexVal(s[2 * i + 1]) * 16 + HexVal(s[2 * i + 2])]]
    ELSE ParseErr

HyphenAt == {9, 14, 19, 24}

\* 8-4-4-4-12 groups of hexadecimal digits
parse_hyphenated(s) ==
    IF /\ Len(s) = 36
       /\ \A i \in 1..36 : IF i \in HyphenAt THEN s[i] = "-" ELSE HexVal(s[i]) >= 0
    THEN parse_simple(SelectSeq(s, LAMBDA c : c # "-"))
    ELSE ParseErr

UrnPrefix == <<"u", "r", "n", ":", "u", "u", "i", "d", ":">>
UuidPrefix == <<"u", "u", "i", "d", ":">>

\* Uuid::parse_str: simple, hyphenated, braced hyphenated or URN hyphenated text
parse_str(s) ==
    IF Len(s) = 32 THEN parse_simple(s)
    ELSE IF Len(s) = 36 THEN parse_hyphenated(s)
    ELSE IF Len(s) = 38 /\ s[1] = "{" /\ s[38] = "}" THEN parse_hyphenated(SubSeq(s, 2, 37))
    ELSE IF Len(s) = 45 /\ StartsWith(s, UrnPrefix) THEN parse_hyphenated(SubSeq(s, 10, 45))
    ELSE ParseErr

(***************************************************************************)
(* UuidGenerator (uuid/generator.rs).                                      *)
(***************************************************************************)
UuidFormat == {"Standard", "Simple", "StandardUppercase", "SimpleUppercase"}
UuidVersion == {"V4", "V7"}

\* mutant: StandardUppercase rendered from the simple form
format_uuid_uppercase_simple(self, uuid) ==
    LET formatted ==
            CASE self.format = "Standard" -> Hyphenated(uuid)
              [] self.format = "Simple" -> Simple(uuid)
              [] self.format = "StandardUppercase" -> ToUppercase(Simple(uuid))
              [] self.format = "SimpleUppercase" -> ToUppercase(Simple(uuid))
    IN  IF self.prefix # None THEN Unwrap(self.prefix) \o formatted ELSE formatted

\* mutant: to_uppercase applied after the prefix is put in front
format_uuid_uppercase_all(self, uuid) ==
    LET formatted ==
            CASE self.format = "Standard" -> Hyphenated(uuid)
              [] self.format = "Simple" -> Simple(uuid)
              [] self.format = "StandardUppercase" -> Hyphenated(uuid)
              [] self.format = "SimpleUppercase" -> Simple(uuid)
        whole == IF self.prefix # None THEN Unwrap(self.prefix) \o formatted ELSE formatted
    IN  IF self.format \in {"StandardUppercase", "SimpleUppercase"}
        THEN ToUppercase(whole) ELSE whole

format_uuid(self, uuid) ==
    LET formatted ==
            CASE self.format = "Standard" -> Hyphenated(uuid)
              [] self.format = "Simple" -> Simple(uuid)
              [] self.format = "StandardUppercase" -> ToUppercase(Hyphenated(uuid))
              [] self.format = "SimpleUppercase" -> ToUppercase(Simple(uuid))
    IN  IF self.prefix # None THEN Unwrap(self.prefix) \o formatted ELSE formatted

\* v4 and v7 are the identifiers Uuid::new_v4() and Uuid::now_v7() would return
generate_uuid(self, v4, v7) == IF self.version = "V4" THEN v4 ELSE v7

generate(self, v4, v7) == format_uuid(self, generate_uuid(self, v4, v7))

\* mutant: the user agent left out
extended_input_hostname_only(metadata) == metadata.hostname

\* mutant: the hostname left out
extended_input_user_agent_only(metadata) ==
    IF metadata.user_agent # None THEN Unwrap(metadata.user_agent) ELSE <<>>

\* the input of the extended hash
extended_input(metadata) ==
    IF metadata.user_agent # None THEN metadata.hostname \o Unwrap(metadata.user_agent)
    ELSE metadata.hostname

\* mutant: byte 6 without the version nibble
inject_metadata_no_version(uuid, metadata) ==
    LET os_encoded == encode_os_metadata(metadata.os_type, metadata.os_version)
        hostname_hash == hash_to_u16(metadata.hostname)
        extended_hash == hash_to_u32(extended_input(metadata))
    IN  [i \in 0..15 |->
            IF i = 6 THEN BitAnd(AsU8(Shr(os_encoded, 8)), 15)
            ELSE IF i = 7 THEN AsU8(os_encoded)
            ELSE IF i = 9 THEN AsU8(BitAnd(hostname_hash, 255))
            ELSE IF i >= 10 /\ i <= 13 THEN ToBeBytes(extended_hash)[i - 9]
            ELSE uuid[i]]

\* mutant: the extended hash copied to bytes[11..15]
inject_metadata_slice_11_15(uuid, metadata) ==
    LET os_encoded == encode_os_metadata(metadata.os_type, metadata.os_version)
        hostname_hash == hash_to_u16(metadata.hostname)
        extended_hash == hash_to_u32(extended_input(metadata))
    IN  [i \in 0..15 |->
            IF i = 6 THEN BitOr(112, BitAnd(AsU8(Shr(os_encoded, 8)), 15))
            ELSE IF i = 7 THEN AsU8(os_encoded)
            ELSE IF i = 9 THEN AsU8(BitAnd(hostname_hash, 255))
            ELSE IF i >= 11 /\ i <= 14 THEN ToBeBytes(extended_hash)[i - 10]
            ELSE uuid[i]]

\* the bytes of custom_uuid, from the bytes of the v7 identifier it starts with
inject_metadata(uuid, metadata) ==
    LET os_encoded == encode_os_metadata(metadata.os_type, metadata.os_version)
        hostname_hash == hash_to_u16(metadata.hostname)
        extended_hash == hash_to_u32(extended_input(metadata))
    IN  [i \in 0..15 |->
            IF i = 6 THEN BitOr(112, BitAnd(AsU8(Shr(os_encoded, 8)), 15))
            ELSE IF i = 7 THEN AsU8(os_encoded)
            ELSE IF i = 9 THEN AsU8(BitAnd(hostname_hash, 255))
            ELSE IF i >= 10 /\ i <= 13 THEN ToBeBytes(extended_hash)[i - 9]
            ELSE uuid[i]]

\* uuid is the identifier Uuid::now_v7() returned to the call; the result is the
\* text, given with the bytes of custom_uuid it renders
generate_with_metadata(self, metadata, uuid) ==
    LET custom_uuid == inject_metadata(uuid, metadata)
    IN  [custom_uuid |-> custom_uuid, text |-> format_uuid(self, custom_uuid)]

(***************************************************************************)
(* extract_metadata (uuid/metadata.rs) and the parser (uuid/parser.rs).    *)
(***************************************************************************)
\* mutant: no check of the version nibble
extract_metadata_any_version(uuid) ==
    LET os_encoded == BitOr(Shl(BitAnd(uuid[6], 15), 8, 16), uuid[7])
        decoded == decode_os_metadata(os_encoded)
    IN  Some([timestamp_ms |-> [hi |-> uuid[0] * 65536 + uuid[1] * 256 + uuid[2],
                                lo |-> uuid[3] * 65536 + uuid[4] * 256 + uuid[5]],
              os_type |-> decoded[1],
              os_version |-> decoded[2],
              hostname_hash |-> uuid[9],
              extended_hash |-> U32FromBeBytes(<<uuid[10], uuid[11], uuid[12], uuid[13]>>)])

extract_metadata(uuid) ==
    IF Shr(uuid[6], 4) # 7 THEN None
    ELSE LET os_encoded == BitOr(Shl(BitAnd(uuid[6], 15), 8, 16), uuid[7])
             decoded == decode_os_metadata(os_encoded)
         IN  Some([timestamp_ms |-> [hi |-> uuid[0] * 65536 + uuid[1] * 256 + uuid[2],
                                lo |-> uuid[3] * 65536 + uuid[4] * 256 + uuid[5]],
              os_type |-> decoded[1],
              os_version |-> decoded[2],
              hostname_hash |-> uuid[9],
              extended_hash |-> U32FromBeBytes(<<uuid[10], uuid[11], uuid[12], uuid[13]>>)])

\* mutant: str::strip_prefix, which removes the pattern once
TrimStartMatchesOnce(s, pat) ==
    IF StartsWith(s, pat) THEN SubSeq(s, Len(pat) + 1, Len(s)) ELSE s

\* str::trim_start_matches: removes the pattern from the front as often as it matches
RECURSIVE TrimStartMatches(_, _)
TrimStartMatches(s, pat) ==
    IF StartsWith(s, pat)
    THEN TrimStartMatches(SubSeq(s, Len(pat) + 1, Len(s)), pat)
    ELSE s

\* str::trim_end_matches
RECURSIVE TrimEndMatches(_, _)
TrimEndMatches(s, pat) ==
    IF EndsWith(s, pat)
    THEN TrimEndMatches(SubSeq(s, 1, Len(s) - Len(pat)), pat)
    ELSE s

\* mutant: the closing brace is kept
clean_uuid_input_keep_closing(input) ==
    TrimStartMatches(
        TrimStartMatches(TrimStartMatches(input, UrnPrefix), UuidPrefix),
        <<"{">>)

\* mutant: the braces are stripped before the scheme prefixes
clean_uuid_input_braces_first(input) ==
    TrimStartMatches(
        TrimStartMatches(
            TrimEndMatches(TrimStartMatches(input, <<"{">>), <<"}">>),
            UrnPrefix),
        UuidPrefix)

clean_uuid_input(input) ==
    TrimEndMatches(
        TrimStartMatches(
            TrimStartMatches(TrimStartMatches(input, UrnPrefix), UuidPrefix),
            <<"{">>),
        <<"}">>)

\* mutant: the hyphens are removed from the cleaned text before it is parsed
parse_uuid_strip_hyphens(input) ==
    parse_str(SelectSeq(clean_uuid_input(input), LAMBDA c : c # "-"))

parse_uuid(input) == parse_str(clean_uuid_input(input))

\* mutant: the input is parsed as it came, not normalized
parse_uuid_with_metadata_raw(input) ==
    LET uuid == parse_str(input)
    IN  IF uuid.ok
        THEN [ok |-> TRUE, value |-> uuid.value, metadata |-> extract_metadata(uuid.value)]
        ELSE ParseErr

parse_uuid_with_metadata(input) ==
    LET uuid == parse_str(clean_uuid_input(input))
    IN  IF uuid.ok
        THEN [ok |-> TRUE, value |-> uuid.value, metadata |-> extract_metadata(uuid.value)]
        ELSE ParseErr

(***************************************************************************)
(* Inputs.                                                                 *)
(***************************************************************************)
\* one output of the random source: sixteen bytes, all zero for seed 0
RandomBytes(seed) == [i \in 0..15 |-> (seed * (255 + 37 * i)) % 256]

RandomSource == {RandomBytes(seed) : seed \in 0..MaxSeed}

\* u64 + d on two 24-bit limbs
AddMs(clk, d) ==
    [hi |-> clk.hi + (clk.lo + d) \div 16777216, lo |-> (clk.lo + d) % 16777216]

TimeLess(a, b) == a.hi < b.hi \/ (a.hi = b.hi /\ a.lo < b.lo)

ClockStarts ==
    { [hi |-> 0, lo |-> 9],
      [hi |-> 101994, lo |-> 16777215],
      [hi |-> 16777215, lo |-> 16776960] }

ClockSteps == {1, 246}

Prefixes == {None, Some(<<"u", "s", "e", "r", "_">>)}

Generators == [version : UuidVersion, format : UuidFormat, prefix : Prefixes]

Hostnames == { <<>>, <<"h", "o", "s", "t", "-", "0", "0", "1">> }

UserAgents == { None, Some(<<"A", "p", "p", "/", "1", ".", "0">>) }

HighSamples == {63, 64, 128, 224, 255}

OsVersions == { <<14, 5>>, <<32, 16>>, <<255, 255>> }

ClientMetadatas ==
    [os_type : OsType, os_version : OsVersions,
     hostname : Hostnames, user_agent : UserAgents]

(***************************************************************************)
(* Generation and parsing of one identifier.                               *)
(***************************************************************************)
Init ==
    /\ clock \in ClockStarts
    /\ gen \in Generators
    /\ out = None
    /\ uuids = <<>>
    /\ parsed = None
    /\ ticks = 0
    /\ arg = None
    /\ ret = None

\* generator.generate()
Generate ==
    /\ out = None
    /\ parsed = None
    /\ \E rnd \in RandomSource :
        LET uuid == generate_uuid(gen, new_v4(rnd), now_v7(clock, rnd))
        IN  out' = Some([op |-> "generate", self |-> gen, metadata |-> None, t |-> clock,
                         raw |-> uuid, uuid |-> uuid,
                         text |-> generate(gen, new_v4(rnd), now_v7(clock, rnd))])
    /\ UNCHANGED <<clock, gen, uuids, parsed, ticks, arg, ret>>

\* generator.generate_with_metadata(&metadata)
GenerateWithMetadata ==
    /\ out = None
    /\ parsed = None
    /\ \E rnd \in RandomSource, metadata \in ClientMetadatas :
        LET uuid == now_v7(clock, rnd)
            res == generate_with_metadata(gen, metadata, uuid)
        IN  out' = Some([op |-> "generate_with_metadata", self |-> gen,
                         metadata |-> Some(metadata), t |-> clock,
                         raw |-> uuid, uuid |-> res.custom_uuid, text |-> res.text])
    /\ UNCHANGED <<clock, gen, uuids, parsed, ticks, arg, ret>>

\* the generated text without the generator's prefix: &uuid[p..]
Body(o) ==
    IF o.self.prefix = None THEN o.text
    ELSE SubSeq(o.text, Len(Unwrap(o.self.prefix)) + 1, Len(o.text))

\* parse_uuid_with_metadata(&uuid[p..]) on the identifier just generated
ParseGenerated ==
    /\ out # None
    /\ parsed = None
    /\ parsed' = Some([input |-> Body(Unwrap(out)),
                      result |-> parse_uuid_with_metadata(Body(Unwrap(out)))])
    /\ UNCHANGED <<clock, gen, out, uuids, ticks, arg, ret>>

\* an identifier of version nibble v that no generator of this crate made
ForeignUuid(v) == [i \in 0..15 |-> IF i = 6 THEN v * 16 + 5 ELSE (17 * i + 3) % 256]

ForeignTexts ==
    {Hyphenated(ForeignUuid(v)) : v \in 0..15} \cup {Simple(ForeignUuid(v)) : v \in 0..15}

\* parse_uuid_with_metadata(input) on a text from elsewhere
ParseForeign ==
    /\ out = None
    /\ parsed = None
    /\ \E input \in ForeignTexts :
        parsed' = Some([input |-> input, result |-> parse_uuid_with_metadata(input)])
    /\ UNCHANGED <<clock, gen, out, uuids, ticks, arg, ret>>

Next == Generate \/ GenerateWithMetadata \/ ParseGenerated \/ ParseForeign

Spec == Init /\ [][Next]_vars

\* the call under observation is generate_with_metadata
MetaCall == out # None /\ Unwrap(out).op = "generate_with_metadata"

\* the call under observation is generate() and its text has been parsed
ParsedOut == out # None /\ parsed # None

(***************************************************************************)
(* C1.  Round trip: the text of generate_with_metadata(m), without the     *)
(* prefix, parses to Some(e) with e.os_type = m.os_type and                *)
(* e.os_version = (major & 0x1F, minor & 0x0F).                            *)
(***************************************************************************)
C1_RoundTrip ==
    (MetaCall /\ parsed # None) =>
        LET m == Unwrap(Unwrap(out).metadata)
            r == Unwrap(parsed).result
        IN  /\ r.ok
            /\ r.metadata # None
            /\ Unwrap(r.metadata).os_type = m.os_type
            /\ Unwrap(r.metadata).os_version =
                   <<BitAnd(m.os_version[1], 31), BitAnd(m.os_version[2], 15)>>

\* a record whose version components are both truncated has been generated and parsed
C1_Witness ==
    /\ MetaCall
    /\ parsed # None
    /\ Unwrap(Unwrap(out).metadata).os_type = "IOS"
    /\ Unwrap(Unwrap(out).metadata).os_version = <<32, 16>>
    /\ Unwrap(out).self.format = "SimpleUppercase"

(***************************************************************************)
(* C4.  Every identifier of generate_with_metadata is a version-7          *)
(* identifier: the high nibble of byte 6 is 7 and the two top bits of      *)
(* byte 8 are the variant bits of the v7 primitive, for every record and   *)
(* every generator, a V4 generator included.                               *)
(***************************************************************************)
C4_Version7 ==
    MetaCall =>
        /\ Shr(Unwrap(out).uuid[6], 4) = 7
        /\ Shr(Unwrap(out).uuid[8], 6) = Shr(Unwrap(out).raw[8], 6)
        /\ Shr(Unwrap(out).uuid[8], 6) = 2
        /\ parse_str(Body(Unwrap(out))) = [ok |-> TRUE, value |-> Unwrap(out).uuid]

\* a V4 generator has made a metadata identifier from an out-of-range version
C4_Witness ==
    /\ MetaCall
    /\ Unwrap(out).self.version = "V4"
    /\ Unwrap(Unwrap(out).metadata).os_version = <<255, 255>>

(***************************************************************************)
(* C5.  Frame of the injection: bytes 0-5, 8, 14 and 15 and the high       *)
(* nibble of byte 6 of the result are those of the v7 identifier the call  *)
(* started from.                                                           *)
(***************************************************************************)
C5_Frame ==
    MetaCall =>
        /\ \A i \in (0..5) \cup {8, 14, 15} : Unwrap(out).uuid[i] = Unwrap(out).raw[i]
        /\ Shr(Unwrap(out).uuid[6], 4) = Shr(Unwrap(out).raw[6], 4)

\* the payload bytes were overwritten and the kept bytes are not all zero
C5_Witness ==
    /\ MetaCall
    /\ \A i \in {7, 9, 10, 11, 12, 13} : Unwrap(out).uuid[i] # Unwrap(out).raw[i]
    /\ BitAnd(Unwrap(out).uuid[6], 15) # BitAnd(Unwrap(out).raw[6], 15)
    /\ \A i \in {5, 14, 15} : Unwrap(out).raw[i] # 0
    /\ BitAnd(Unwrap(out).raw[8], 63) # 0

(***************************************************************************)
(* C6.  Extraction gives back what was embedded: timestamp_ms is the       *)
(* clock of the call, hostname_hash the low byte of hash_to_u16(hostname), *)
(* extended_hash the hash_to_u32 of hostname followed by the user agent,   *)
(* or of the hostname alone without user agent.                            *)
(***************************************************************************)
C6_Extraction ==
    (MetaCall /\ parsed # None) =>
        LET m == Unwrap(Unwrap(out).metadata)
            r == Unwrap(parsed).result
        IN  /\ r.ok
            /\ r.metadata # None
            /\ Unwrap(r.metadata).timestamp_ms = Unwrap(out).t
            /\ Unwrap(r.metadata).hostname_hash = hash_to_u16(m.hostname) % 256
            /\ Unwrap(r.metadata).extended_hash =
                   IF m.user_agent = None THEN hash_to_u32(m.hostname)
                   ELSE hash_to_u32(m.hostname \o Unwrap(m.user_agent))

\* a record with a user agent, at a clock that uses both halves of the time stamp
C6_Witness ==
    /\ MetaCall
    /\ parsed # None
    /\ Unwrap(Unwrap(out).metadata).user_agent # None
    /\ Unwrap(Unwrap(out).metadata).hostname # <<>>
    /\ Unwrap(out).t.hi > 65535
    /\ Unwrap(out).t.lo > 65535

SortMetadatas ==
    { [os_type |-> "Linux", os_version |-> <<14, 5>>,
       hostname |-> <<"h", "o", "s", "t", "-", "0", "0", "1">>, user_agent |-> None],
      [os_type |-> "IOS", os_version |-> <<255, 255>>,
       hostname |-> <<>>, user_agent |-> Some(<<"A", "p", "p", "/", "1", ".", "0">>)] }

SortInit ==
    /\ clock \in ClockStarts
    /\ gen \in Generators
    /\ out = None
    /\ uuids = <<>>
    /\ parsed = None
    /\ ticks = 0
    /\ arg = None
    /\ ret = None

\* thread::sleep: the clock read by the next iteration is later by d milliseconds
Sleep(d) ==
    /\ AddMs(clock, d).hi < 16777216
    /\ clock' = AddMs(clock, d)
    /\ ticks' = ticks + 1

\* one iteration of the loop of test_v7_sortability, on a V7 generator:
\* uuids.push(generator.generate()); thread::sleep(..)
PushGenerate ==
    /\ Len(uuids) < MaxUuids
    /\ gen.version = "V7"
    /\ \E rnd \in RandomSource :
        uuids' = Append(uuids, [t |-> clock,
                                text |-> generate(gen, new_v4(rnd), now_v7(clock, rnd))])
    /\ \E d \in ClockSteps : Sleep(d)
    /\ UNCHANGED <<gen, out, parsed, arg, ret>>

\* one iteration of the loop of test_metadata_sortability:
\* uuids.push(generator.generate_with_metadata(&metadata)); thread::sleep(..)
PushGenerateWithMetadata ==
    /\ Len(uuids) < MaxUuids
    /\ \E rnd \in RandomSource, metadata \in SortMetadatas :
        uuids' = Append(uuids,
                        [t |-> clock,
                         text |-> generate_with_metadata(gen, metadata, now_v7(clock, rnd)).text])
    /\ \E d \in ClockSteps : Sleep(d)
    /\ UNCHANGED <<gen, out, parsed, arg, ret>>

SortNext == PushGenerate \/ PushGenerateWithMetadata

SortSpec == SortInit /\ [][SortNext]_vars

(***************************************************************************)
(* C3.  Sortability: identifiers of one generator made at strictly         *)
(* increasing clock readings are in strictly increasing lexicographic      *)
(* order, whatever the random bytes and the payload.                       *)
(***************************************************************************)
C3_Sortable ==
    \A i, j \in 1..Len(uuids) :
        (i < j /\ TimeLess(uuids[i].t, uuids[j].t)) => StrLess(uuids[i].text, uuids[j].text)

\* the text after the time stamp, for a generator whose prefix has p characters
AfterTimestamp(text, p) == SubSeq(text, p + 14, Len(text))

\* two identifiers at increasing clocks whose bytes after the time stamp decrease
C3_Witness ==
    /\ Len(uuids) >= 2
    /\ TimeLess(uuids[1].t, uuids[2].t)
    /\ gen.prefix # None
    /\ StrLess(AfterTimestamp(uuids[2].text, Len(Unwrap(gen.prefix))),
               AfterTimestamp(uuids[1].text, Len(Unwrap(gen.prefix))))

(***************************************************************************)
(* The OS metadata codec as a pure function, in both variants.             *)
(***************************************************************************)
CodecInputs ==
    [os_type : OsType,
     os_version : ((0..MaxMajor) \cup HighSamples) \X ((0..MaxMinor) \cup HighSamples)]

DefaultGenerator == [version |-> "V4", format |-> "Standard", prefix |-> None]

Idle ==
    /\ clock = [hi |-> 0, lo |-> 0]
    /\ gen = DefaultGenerator
    /\ out = None
    /\ uuids = <<>>
    /\ parsed = None
    /\ ticks = 0

CodecInit ==
    /\ Idle
    /\ arg \in {Some(x) : x \in CodecInputs}
    /\ ret = [encoded |-> None, decoded |-> None, encoded_flat |-> None, decoded_flat |-> None,
              crossed |-> None]

\* encode_os_metadata of uuid/metadata.rs
EncodeOsMetadata ==
    /\ ret.encoded = None
    /\ ret' = [ret EXCEPT !.encoded =
                  Some(encode_os_metadata(Unwrap(arg).os_type, Unwrap(arg).os_version))]
    /\ UNCHANGED <<clock, gen, out, uuids, parsed, ticks, arg>>

\* decode_os_metadata of uuid/metadata.rs on the encoded field
DecodeOsMetadata ==
    /\ ret.encoded # None
    /\ ret.decoded = None
    /\ ret' = [ret EXCEPT !.decoded = Some(decode_os_metadata(Unwrap(ret.encoded)))]
    /\ UNCHANGED <<clock, gen, out, uuids, parsed, ticks, arg>>

\* encode_os_metadata of metadata.rs
EncodeOsMetadataFlat ==
    /\ ret.encoded_flat = None
    /\ ret' = [ret EXCEPT !.encoded_flat =
                  Some(encode_os_metadata_flat(Unwrap(arg).os_type, Unwrap(arg).os_version))]
    /\ UNCHANGED <<clock, gen, out, uuids, parsed, ticks, arg>>

\* decode_os_metadata of metadata.rs on the encoded field
DecodeOsMetadataFlat ==
    /\ ret.encoded_flat # None
    /\ ret.decoded_flat = None
    /\ ret' = [ret EXCEPT !.decoded_flat = Some(decode_os_metadata_flat(Unwrap(ret.encoded_flat)))]
    /\ UNCHANGED <<clock, gen, out, uuids, parsed, ticks, arg>>

\* decode_os_metadata of uuid/metadata.rs on the field encoded by metadata.rs
DecodeFlatField ==
    /\ ret.encoded_flat # None
    /\ ret.crossed = None
    /\ ret' = [ret EXCEPT !.crossed = Some(decode_os_metadata(Unwrap(ret.encoded_flat)))]
    /\ UNCHANGED <<clock, gen, out, uuids, parsed, ticks, arg>>

CodecNext ==
    \/ EncodeOsMetadata
    \/ DecodeOsMetadata
    \/ EncodeOsMetadataFlat
    \/ DecodeOsMetadataFlat
    \/ DecodeFlatField

CodecSpec == CodecInit /\ [][CodecNext]_vars

(***************************************************************************)
(* C2.  Codec round trip with masking: decode(encode(f, (major, minor)))   *)
(* is (f, (major mod 32, minor mod 16)) in uuid/metadata.rs and            *)
(* (f, (major mod 16, minor mod 16)) in metadata.rs; a component out of    *)
(* range is truncated.                                                     *)
(***************************************************************************)
C2_CodecRoundTrip ==
    LET f == Unwrap(arg).os_type
        major == Unwrap(arg).os_version[1]
        minor == Unwrap(arg).os_version[2]
    IN  /\ ret.decoded # None =>
               Unwrap(ret.decoded) = <<f, <<major % 32, minor % 16>>>>
        /\ ret.decoded_flat # None =>
               Unwrap(ret.decoded_flat) = <<f, <<major % 16, minor % 16>>>>

\* major 32 and minor 16 have been decoded as 0 and 0 by the 3/5/4 variant
C2_Witness ==
    /\ Unwrap(arg).os_type = "Android"
    /\ Unwrap(arg).os_version = <<32, 16>>
    /\ ret.decoded = Some(<<"Android", <<0, 0>>>>)
    /\ ret.decoded_flat # None

(***************************************************************************)
(* C23.  The two codec variants are wire-incompatible: a field encoded by  *)
(* metadata.rs (4-bit family, 4-bit major, 4-bit minor) and decoded by     *)
(* uuid/metadata.rs (3-bit family, 5-bit major, 4-bit minor) gives a       *)
(* different family for every family other than Linux (and Linux for       *)
(* Linux), while within each file decode gives back the encoded family.    *)
(***************************************************************************)
C23_WireIncompatible ==
    LET f == Unwrap(arg).os_type
    IN  /\ ret.crossed # None =>
               /\ f # "Linux" => Unwrap(ret.crossed)[1] # f
               /\ f = "Linux" => Unwrap(ret.crossed)[1] = "Linux"
        /\ ret.decoded # None => Unwrap(ret.decoded)[1] = f
        /\ ret.decoded_flat # None => Unwrap(ret.decoded_flat)[1] = f

\* an IOS field of metadata.rs has been read as Windows, major 21, by uuid/metadata.rs
C23_Witness ==
    /\ Unwrap(arg).os_type = "IOS"
    /\ Unwrap(arg).os_version = <<5, 3>>
    /\ ret.crossed = Some(<<"Windows", <<21, 3>>>>)
    /\ ret.decoded = Some(<<"IOS", <<5, 3>>>>)
    /\ ret.decoded_flat = Some(<<"IOS", <<5, 3>>>>)

(***************************************************************************)
(* OsType::encode and OsType::decode as pure functions, in both variants.  *)
(***************************************************************************)
OsTypeInit ==
    /\ Idle
    /\ arg \in {Some(b) : b \in Bytes}
    /\ ret = [decoded |-> None, decoded_flat |-> None, round_trip |-> None]

\* OsType::decode(b) of uuid/metadata.rs
DecodeOsType ==
    /\ ret.decoded = None
    /\ ret' = [ret EXCEPT !.decoded = Some(OsTypeDecode(Unwrap(arg)))]
    /\ UNCHANGED <<clock, gen, out, uuids, parsed, ticks, arg>>

\* OsType::decode(b) of metadata.rs
DecodeOsTypeFlat ==
    /\ ret.decoded_flat = None
    /\ ret' = [ret EXCEPT !.decoded_flat = Some(OsTypeDecodeFlat(Unwrap(arg)))]
    /\ UNCHANGED <<clock, gen, out, uuids, parsed, ticks, arg>>

\* OsType::decode(os_type.encode()) in both variants (test_os_type_encoding_decoding)
RoundTripOsType ==
    /\ ret.round_trip = None
    /\ \E os_type \in OsType :
        ret' = [ret EXCEPT !.round_trip =
                   Some([os_type |-> os_type,
                         decoded |-> OsTypeDecode(OsTypeEncode(os_type)),
                         decoded_flat |-> OsTypeDecodeFlat(OsTypeEncode(os_type))])]
    /\ UNCHANGED <<clock, gen, out, uuids, parsed, ticks, arg>>

OsTypeNext == DecodeOsType \/ DecodeOsTypeFlat \/ RoundTripOsType

OsTypeSpec == OsTypeInit /\ [][OsTypeNext]_vars

\* the families by discriminant, as the enum declares them
FamilyOfCode == <<"Linux", "Windows", "MacOS", "Android", "IOS">>

\* what the claim expects for a code masked to its field
ExpectedFamily(code) == IF code \in 1..5 THEN FamilyOfCode[code] ELSE "Linux"

(***************************************************************************)
(* C8.  OsType::decode is total: every byte decodes to one of the five     *)
(* families, the masked codes 1..5 to Linux, Windows, MacOS, Android, IOS  *)
(* and every other masked code to Linux; decode(encode(f)) = f.            *)
(***************************************************************************)
C8_DecodeTotal ==
    /\ ret.decoded # None =>
           /\ Unwrap(ret.decoded) \in OsType
           /\ Unwrap(ret.decoded) = ExpectedFamily(Unwrap(arg) % 8)
    /\ ret.decoded_flat # None =>
           /\ Unwrap(ret.decoded_flat) \in OsType
           /\ Unwrap(ret.decoded_flat) = ExpectedFamily(Unwrap(arg) % 16)
    /\ ret.round_trip # None =>
           /\ Unwrap(ret.round_trip).decoded = Unwrap(ret.round_trip).os_type
           /\ Unwrap(ret.round_trip).decoded_flat = Unwrap(ret.round_trip).os_type

\* byte 0xFD: IOS under the 3-bit mask, the fallback under the 4-bit mask; IOS round-tripped
C8_Witness ==
    /\ arg = Some(253)
    /\ ret.decoded = Some("IOS")
    /\ ret.decoded_flat = Some("Linux")
    /\ ret.round_trip # None
    /\ Unwrap(ret.round_trip).os_type = "IOS"

(***************************************************************************)
(* parse_uuid on decorated texts.                                          *)
(***************************************************************************)
Decorations ==
    {"X", "urn:uuid:X", "uuid:X", "{X}", "urn:uuid:{X}", "uuid:{X}", "{urn:uuid:X}", "{uuid:X}"}

Decorate(d, x) ==
    CASE d = "X" -> x
      [] d = "urn:uuid:X" -> UrnPrefix \o x
      [] d = "uuid:X" -> UuidPrefix \o x
      [] d = "{X}" -> <<"{">> \o x \o <<"}">>
      [] d = "urn:uuid:{X}" -> UrnPrefix \o <<"{">> \o x \o <<"}">>
      [] d = "uuid:{X}" -> UuidPrefix \o <<"{">> \o x \o <<"}">>
      [] d = "{urn:uuid:X}" -> <<"{">> \o UrnPrefix \o x \o <<"}">>
      [] d = "{uuid:X}" -> <<"{">> \o UuidPrefix \o x \o <<"}">>

\* valid bare identifier texts: hyphenated and compact, lower and upper case
BareTexts ==
    UNION { { Hyphenated(u), Simple(u), ToUppercase(Hyphenated(u)), ToUppercase(Simple(u)) } :
            u \in {ForeignUuid(4), ForeignUuid(7), ForeignUuid(10)} }

ParseInit ==
    /\ Idle
    /\ arg \in {Some(x) : x \in BareTexts}
    /\ ret = [d \in Decorations |-> None]

\* parse_uuid on the text X under decoration d
ParseDecorated ==
    \E d \in Decorations :
        /\ ret[d] = None
        /\ ret' = [ret EXCEPT ![d] = Some(parse_uuid(Decorate(d, Unwrap(arg))))]
        /\ UNCHANGED <<clock, gen, out, uuids, parsed, ticks, arg>>

ParseNext == ParseDecorated

ParseSpec == ParseInit /\ [][ParseNext]_vars

\* the calls made so far on the decorations ds all succeeded with one value
Agree(ds) ==
    \A d1, d2 \in ds :
        (ret[d1] # None /\ ret[d2] # None) =>
            /\ Unwrap(ret[d1]).ok
            /\ Unwrap(ret[d2]).ok
            /\ Unwrap(ret[d1]).value = Unwrap(ret[d2]).value

(***************************************************************************)
(* C9.  Parser normalization: for a valid bare text X, parse_uuid of       *)
(* "urn:uuid:X", of X and of "{X}" all succeed with the same value.        *)
(***************************************************************************)
C9_Normalization == Agree({"X", "urn:uuid:X", "{X}"})

\* the three forms of a compact upper-case text have been parsed
C9_Witness ==
    /\ Len(Unwrap(arg)) = 32
    /\ Unwrap(arg) = ToUppercase(Unwrap(arg))
    /\ Unwrap(arg) # Simple(ForeignUuid(4))
    /\ \A d \in {"X", "urn:uuid:X", "{X}"} : ret[d] # None

(***************************************************************************)
(* C10.  Decorations.  As claimed: parse_uuid succeeds with the value of   *)
(* X under each of the eight decorations, the two with the braces around   *)
(* the scheme prefix included.                                             *)
(***************************************************************************)
C10_AnyNesting == Agree(Decorations)

(***************************************************************************)
(* C10, amended.  parse_uuid succeeds with the value of X under            *)
(* "urn:uuid:X", "uuid:X", "{X}", "urn:uuid:{X}" and "uuid:{X}"; with the  *)
(* braces around the scheme prefix, "{uuid:X}" is an error, and so is      *)
(* "{urn:uuid:X}" for a compact X.                                         *)
(***************************************************************************)
C10_SchemeOutsideBraces ==
    /\ Agree({"X", "urn:uuid:X", "uuid:X", "{X}", "urn:uuid:{X}", "uuid:{X}"})
    /\ ret["{uuid:X}"] # None => ~Unwrap(ret["{uuid:X}"]).ok
    /\ (ret["{urn:uuid:X}"] # None /\ Len(Unwrap(arg)) = 32) => ~Unwrap(ret["{urn:uuid:X}"]).ok

\* every decoration of a compact text has been parsed
C10_Witness ==
    /\ Len(Unwrap(arg)) = 32
    /\ \A d \in Decorations : ret[d] # None
    /\ Unwrap(ret["uuid:{X}"]).ok
    /\ ~Unwrap(ret["{uuid:X}"]).ok

(***************************************************************************)
(* format_uuid on a given identifier value, and parse_uuid on its text.    *)
(***************************************************************************)
\* identifier values: outputs of Uuid::new_v4 and Uuid::now_v7, and values of
\* every version nibble
UuidValues ==
    {new_v4(rnd) : rnd \in RandomSource} \cup
    {now_v7(clk, rnd) : clk \in ClockStarts, rnd \in RandomSource} \cup
    {ForeignUuid(v) : v \in 0..15}

FormatPrefixes == Prefixes \cup {Some(<<"O", "R", "D", "E", "R", "_">>)}

FormatGenerators == [version : UuidVersion, format : UuidFormat, prefix : FormatPrefixes]

FormatInit ==
    /\ clock = [hi |-> 0, lo |-> 0]
    /\ gen \in FormatGenerators
    /\ out = None
    /\ uuids = <<>>
    /\ parsed = None
    /\ ticks = 0
    /\ arg \in {Some(u) : u \in UuidValues}
    /\ ret = None

\* self.format_uuid(&uuid)
FormatUuid ==
    /\ out = None
    /\ out' = Some([self |-> gen, uuid |-> Unwrap(arg), text |-> format_uuid(gen, Unwrap(arg))])
    /\ UNCHANGED <<clock, gen, uuids, parsed, ticks, arg, ret>>

\* parse_uuid(&uuid) on the whole text
ParseFormatted ==
    /\ out # None
    /\ ret = None
    /\ ret' = Some(parse_uuid(Unwrap(out).text))
    /\ UNCHANGED <<clock, gen, out, uuids, parsed, ticks, arg>>

\* parse_uuid(&uuid[p..]) on the text after the prefix
ParseBody ==
    /\ out # None
    /\ parsed = None
    /\ parsed' = Some([input |-> Body(Unwrap(out)), result |-> parse_uuid(Body(Unwrap(out)))])
    /\ UNCHANGED <<clock, gen, out, uuids, ticks, arg, ret>>

FormatNext == FormatUuid \/ ParseFormatted \/ ParseBody

FormatSpec == FormatInit /\ [][FormatNext]_vars

IsLowercase(c) == Code(c) >= 97 /\ Code(c) <= 122

IsHexDigit(c) == HexVal(c) >= 0

\* the length of the identifier body in the format f
BodyLen(f) == IF f \in {"Standard", "StandardUppercase"} THEN 36 ELSE 32

(***************************************************************************)
(* C11.  Format/parse round trip: without prefix, parse_uuid of the text   *)
(* format_uuid gives for u succeeds with the value u, in each of the four  *)
(* formats (hyphenated and compact, lower and upper case).                 *)
(***************************************************************************)
C11_FormatParseRoundTrip ==
    (out # None /\ gen.prefix = None /\ ret # None) =>
        /\ Unwrap(ret).ok
        /\ Unwrap(ret).value = Unwrap(arg)

\* an upper-case compact text with letters has been parsed
C11_Witness ==
    /\ out # None
    /\ gen.prefix = None
    /\ gen.format = "SimpleUppercase"
    /\ ret # None
    /\ \E i \in 1..Len(Unwrap(out).text) : Unwrap(out).text[i] = "F"

(***************************************************************************)
(* C13.  Format lengths: without prefix, the Standard and                  *)
(* StandardUppercase texts have 36 characters, hyphens exactly at the      *)
(* 0-based positions 8, 13, 18, 23 and hexadecimal digits elsewhere; the   *)
(* Simple and SimpleUppercase texts are 32 hexadecimal digits.             *)
(***************************************************************************)
C13_FormatLengths ==
    (out # None /\ gen.prefix = None) =>
        LET text == Unwrap(out).text
        IN  IF gen.format \in {"Standard", "StandardUppercase"}
            THEN /\ Len(text) = 36
                 /\ \A i \in 1..36 :
                        IF i \in HyphenAt THEN text[i] = "-" ELSE IsHexDigit(text[i])
            ELSE /\ Len(text) = 32
                 /\ \A i \in 1..32 : IsHexDigit(text[i])

\* a version-7 value has been rendered in StandardUppercase without prefix
C13_Witness ==
    /\ out # None
    /\ gen.prefix = None
    /\ gen.format = "StandardUppercase"
    /\ Unwrap(arg) \in {now_v7(clk, rnd) : clk \in ClockStarts, rnd \in RandomSource}
    /\ Len(Unwrap(out).text) = 36

(***************************************************************************)
(* C14.  Case and prefix, as claimed: in the upper-case formats the        *)
(* generated text has no lower-case letter; the text is the prefix as      *)
(* supplied followed by the body, of length p + 36 or p + 32, and the text *)
(* after the first p characters is accepted by parse_uuid.                 *)
(***************************************************************************)
C14_CaseAndPrefix ==
    out # None =>
        LET text == Unwrap(out).text
            p == IF gen.prefix = None THEN 0 ELSE Len(Unwrap(gen.prefix))
        IN  /\ gen.format \in {"StandardUppercase", "SimpleUppercase"} =>
                   \A i \in 1..Len(text) : ~IsLowercase(text[i])
            /\ gen.prefix # None => SubSeq(text, 1, p) = Unwrap(gen.prefix)
            /\ Len(text) = p + BodyLen(gen.format)
            /\ parsed # None => Unwrap(parsed).result.ok

(***************************************************************************)
(* C14, amended.  In the upper-case formats the identifier body, the text  *)
(* after the prefix, has no lower-case letter; the prefix is kept as       *)
(* supplied, lower-case letters included; the length is p + 36 or p + 32   *)
(* and the text after the first p characters is accepted by parse_uuid.    *)
(***************************************************************************)
C14_BodyCaseAndPrefix ==
    out # None =>
        LET text == Unwrap(out).text
            p == IF gen.prefix = None THEN 0 ELSE Len(Unwrap(gen.prefix))
        IN  /\ gen.format \in {"StandardUppercase", "SimpleUppercase"} =>
                   \A i \in (p + 1)..Len(text) : ~IsLowercase(text[i])
            /\ gen.prefix # None => SubSeq(text, 1, p) = Unwrap(gen.prefix)
            /\ Len(text) = p + BodyLen(gen.format)
            /\ parsed # None => Unwrap(parsed).result.ok

\* an upper-case text with a lower-case prefix has been generated and its body parsed
C14_Witness ==
    /\ out # None
    /\ gen.prefix = Some(<<"u", "s", "e", "r", "_">>)
    /\ gen.format = "StandardUppercase"
    /\ Len(Unwrap(out).text) = 41
    /\ parsed # None

(***************************************************************************)
(* parse_uuid on malformed texts.                                          *)
(***************************************************************************)
NotAUuid == <<"n", "o", "t", "-", "a", "-", "u", "u", "i", "d">>

InvalidUuidString ==
    <<"i", "n", "v", "a", "l", "i", "d", "-", "u", "u", "i", "d", "-", "s", "t", "r", "i", "n", "g">>

\* the two well-formed texts the malformed ones are made from
WellFormedTexts == {Hyphenated(ForeignUuid(4)), Simple(ForeignUuid(7))}

DropAt(s, i) == SubSeq(s, 1, i - 1) \o SubSeq(s, i + 1, Len(s))

PutAt(s, i, c) == [s EXCEPT ![i] = c]

SwapAt(s, i) == [s EXCEPT ![i] = s[i + 1], ![i + 1] = s[i]]

\* texts of a wrong length, with a character that is no hexadecimal digit, with
\* a hyphen out of place, with a generator prefix left on, and decorated texts
ParseInputs ==
    {NotAUuid, InvalidUuidString, <<>>} \cup WellFormedTexts \cup
    UNION { {DropAt(x, i) : i \in 1..Len(x)} \cup
            {PutAt(x, i, "g") : i \in 1..Len(x)} \cup
            {PutAt(x, i, "-") : i \in 1..Len(x)} \cup
            {SwapAt(x, i) : i \in 1..(Len(x) - 1)} \cup
            {x \o <<"0">>} \cup
            {Unwrap(p) \o x : p \in FormatPrefixes \ {None}} \cup
            {UuidPrefix \o UrnPrefix \o x} \cup
            {Decorate(d, y) : d \in Decorations, y \in {x, DropAt(x, 1), NotAUuid}} :
          x \in WellFormedTexts }

MalformedInit ==
    /\ Idle
    /\ arg \in {Some(x) : x \in ParseInputs}
    /\ ret = None

\* parse_uuid(input)
ParseInput ==
    /\ ret = None
    /\ ret' = Some(parse_uuid(Unwrap(arg)))
    /\ UNCHANGED <<clock, gen, out, uuids, parsed, ticks, arg>>

\* parse_uuid_with_metadata(input)
ParseInputWithMetadata ==
    /\ parsed = None
    /\ parsed' = Some(parse_uuid_with_metadata(Unwrap(arg)))
    /\ UNCHANGED <<clock, gen, out, uuids, ticks, arg, ret>>

MalformedNext == ParseInput \/ ParseInputWithMetadata

MalformedSpec == MalformedInit /\ [][MalformedNext]_vars

\* 8-4-4-4-12: 36 characters, hyphens at the 0-based positions 8, 13, 18, 23
IsHyphenatedForm(n) ==
    /\ Len(n) = 36
    /\ \A i \in 1..36 : IF i \in HyphenAt THEN n[i] = "-" ELSE IsHexDigit(n[i])

IsSimpleForm(n) == Len(n) = 32 /\ \A i \in 1..32 : IsHexDigit(n[i])

\* "urn:uuid:" in front of the hyphenated form
IsUrnForm(n) ==
    /\ Len(n) = 45
    /\ SubSeq(n, 1, 9) = UrnPrefix
    /\ IsHyphenatedForm(SubSeq(n, 10, 45))

\* the texts the claim names are errors
NamedTextsAreErrors ==
    LET input == Unwrap(arg)
    IN  (\/ input \in {NotAUuid, InvalidUuidString}
         \/ \E p \in FormatPrefixes \ {None}, x \in WellFormedTexts : input = Unwrap(p) \o x)
        => ~Unwrap(ret).ok

(***************************************************************************)
(* C12.  Malformed input, as claimed: parse_uuid is an error whenever the  *)
(* normalized text is neither 32 hexadecimal digits nor 36 characters with *)
(* hyphens at 8, 13, 18, 23; "not-a-uuid", "invalid-uuid-string" and a     *)
(* text with a generator prefix left on are errors.                        *)
(***************************************************************************)
C12_MalformedIsError ==
    ret # None =>
        LET n == clean_uuid_input(Unwrap(arg))
        IN  /\ ~(IsSimpleForm(n) \/ IsHyphenatedForm(n)) => ~Unwrap(ret).ok
            /\ NamedTextsAreErrors

(***************************************************************************)
(* C12, amended.  parse_uuid is an error whenever the normalized text is   *)
(* none of: 32 hexadecimal digits, the 36-character hyphenated form, and   *)
(* "urn:uuid:" followed by the hyphenated form (what normalization leaves  *)
(* of "{urn:uuid:X}" and of "uuid:urn:uuid:X"); the named texts are errors.*)
(***************************************************************************)
C12_MalformedIsErrorButUrn ==
    ret # None =>
        LET n == clean_uuid_input(Unwrap(arg))
        IN  /\ ~(IsSimpleForm(n) \/ IsHyphenatedForm(n) \/ IsUrnForm(n)) => ~Unwrap(ret).ok
            /\ NamedTextsAreErrors

\* a text of 36 characters with a hyphen out of place has been refused
C12_Witness ==
    /\ ret # None
    /\ Unwrap(arg) = SwapAt(Hyphenated(ForeignUuid(4)), 9)
    /\ ~Unwrap(ret).ok

(***************************************************************************)
(* generate_batch, generate_batch_with_metadata and two successive         *)
(* generate_with_metadata calls.  ticks is the position of the iterator    *)
(* 0..count, uuids the calls made so far with the clock reading and the    *)
(* random bytes each one drew, ret the collected Vec<String>.              *)
(***************************************************************************)
\* three outputs of the random source; the second differs from the first in
\* byte 10 only, the third in byte 14 only
BatchRandoms ==
    { RandomBytes(1), [RandomBytes(1) EXCEPT ![10] = 0], [RandomBytes(1) EXCEPT ![14] = 0] }

BatchGenerators ==
    [version : UuidVersion, format : {"Standard", "SimpleUppercase"}, prefix : Prefixes]

BatchMetadata ==
    [os_type |-> "Windows", os_version |-> <<10, 0>>,
     hostname |-> <<"h", "o", "s", "t", "-", "0", "0", "1">>,
     user_agent |-> Some(<<"A", "p", "p", "/", "1", ".", "0">>)]

BatchCalls ==
    [op : {"generate_batch", "generate_batch_with_metadata"},
     count : 0..MaxBatch, metadata : {BatchMetadata}] \cup
    [op : {"generate_with_metadata"}, count : {2}, metadata : {BatchMetadata}]

BatchInit ==
    /\ clock = [hi |-> 101994, lo |-> 16777215]
    /\ gen \in BatchGenerators
    /\ out = None
    /\ uuids = <<>>
    /\ parsed = None
    /\ ticks = 0
    /\ arg \in {Some(c) : c \in BatchCalls}
    /\ ret = None

\* mutant: the range 0..=count
RangeHasNextInclusive(i, count) == i <= count

\* Iterator::next of the range 0..count is Some
RangeHasNext(i, count) == i < count

\* the clock reading of the next call: the same millisecond or the one after
Elapse == \E d \in {0, 1} : clock' = AddMs(clock, d)

\* one element of (0..count).map(|_| self.generate())
BatchStep ==
    /\ Unwrap(arg).op = "generate_batch"
    /\ ret = None
    /\ RangeHasNext(ticks, Unwrap(arg).count)
    /\ \E rnd \in BatchRandoms :
        uuids' = Append(uuids, [t |-> clock, rnd |-> rnd,
                                text |-> generate(gen, new_v4(rnd), now_v7(clock, rnd))])
    /\ ticks' = ticks + 1
    /\ Elapse
    /\ UNCHANGED <<gen, out, parsed, arg, ret>>

\* one element of (0..count).map(|_| self.generate_with_metadata(metadata))
BatchWithMetadataStep ==
    /\ Unwrap(arg).op = "generate_batch_with_metadata"
    /\ ret = None
    /\ RangeHasNext(ticks, Unwrap(arg).count)
    /\ \E rnd \in BatchRandoms :
        uuids' = Append(uuids, [t |-> clock, rnd |-> rnd,
                                text |-> generate_with_metadata(
                                             gen, Unwrap(arg).metadata, now_v7(clock, rnd)).text])
    /\ ticks' = ticks + 1
    /\ Elapse
    /\ UNCHANGED <<gen, out, parsed, arg, ret>>

\* uuid1, then uuid2 = generator.generate_with_metadata(&metadata)
CallWithMetadata ==
    /\ Unwrap(arg).op = "generate_with_metadata"
    /\ ret = None
    /\ ticks < Unwrap(arg).count
    /\ \E rnd \in BatchRandoms :
        uuids' = Append(uuids, [t |-> clock, rnd |-> rnd,
                                text |-> generate_with_metadata(
                                             gen, Unwrap(arg).metadata, now_v7(clock, rnd)).text])
    /\ ticks' = ticks + 1
    /\ Elapse
    /\ UNCHANGED <<gen, out, parsed, arg, ret>>

\* .collect(): the iterator is exhausted and the vector is returned
Collect ==
    /\ ret = None
    /\ IF Unwrap(arg).op = "generate_with_metadata"
       THEN ticks >= Unwrap(arg).count
       ELSE ~RangeHasNext(ticks, Unwrap(arg).count)
    /\ ret' = Some([i \in 1..Len(uuids) |-> uuids[i].text])
    /\ UNCHANGED <<clock, gen, out, uuids, parsed, ticks, arg>>

BatchNext == BatchStep \/ BatchWithMetadataStep \/ CallWithMetadata \/ Collect

BatchSpec == BatchInit /\ [][BatchNext]_vars

\* the step of the iterator, whatever the call it makes returns
IteratorAdvance ==
    /\ ret = None
    /\ ticks < Unwrap(arg).count
    /\ ticks' = ticks + 1

\* the calls are made one after the other by one running thread: the iterator
\* advances while it has a next element, and the vector is returned after it
BatchFairSpec == BatchSpec /\ WF_ticks(IteratorAdvance) /\ WF_ret(Collect)

PairwiseDistinct(texts) ==
    \A i, j \in 1..Len(texts) : i # j => texts[i] # texts[j]

\* the calls whose uniqueness is claimed: a V4 batch, a metadata batch, two calls
UniquenessCase ==
    /\ ret # None
    /\ Unwrap(arg).count >= 2
    /\ Unwrap(arg).op = "generate_batch" => gen.version = "V4"

\* the bits of the random draw that reach a V4 identifier
KeptV4(c) == new_v4(c.rnd)

\* what reaches a metadata identifier of one record: the clock reading, the low
\* six bits of byte 8 and bytes 14 and 15
KeptWithMetadata(c) == <<c.t, c.rnd[8] % 64, c.rnd[14], c.rnd[15]>>

Kept(c) == IF Unwrap(arg).op = "generate_batch" THEN KeptV4(c) ELSE KeptWithMetadata(c)

ElementOfCall(i) ==
    LET text == Unwrap(ret)[i]
        p == IF gen.prefix = None THEN 0 ELSE Len(Unwrap(gen.prefix))
        body == SubSeq(text, p + 1, Len(text))
        res == parse_uuid_with_metadata(body)
        plain == Unwrap(arg).op = "generate_batch"
    IN  /\ gen.prefix # None => SubSeq(text, 1, p) = Unwrap(gen.prefix)
        /\ Len(body) = BodyLen(gen.format)
        /\ gen.format = "SimpleUppercase" => body = ToUppercase(body)
        /\ res.ok
        /\ Shr(res.value[6], 4) = (IF plain /\ gen.version = "V4" THEN 4 ELSE 7)
        /\ res.metadata # None => Unwrap(res.metadata).timestamp_ms = uuids[i].t
        /\ ~plain =>
               /\ res.metadata # None
               /\ Unwrap(res.metadata).os_type = Unwrap(arg).metadata.os_type
               /\ Unwrap(res.metadata).os_version = Unwrap(arg).metadata.os_version

BatchReturned ==
    (ret # None /\ Unwrap(arg).op # "generate_with_metadata") =>
        /\ Len(Unwrap(ret)) = Unwrap(arg).count
        /\ \A i \in 1..Len(Unwrap(ret)) : ElementOfCall(i)

(***************************************************************************)
(* C17.  Batch generation terminates and returns exactly n identifiers:    *)
(* every batch call returns, and what it returns has length count (empty   *)
(* for 0), the i-th element being the text of the i-th generate() or       *)
(* generate_with_metadata(m) call in the generator's format and prefix.    *)
(***************************************************************************)
C17_BatchReturnsN == []BatchReturned /\ <>(ret # None)

\* a batch of three metadata identifiers has been returned
C17_Witness ==
    /\ ret # None
    /\ Unwrap(arg).op = "generate_batch_with_metadata"
    /\ Unwrap(arg).count = 3
    /\ Len(Unwrap(ret)) = 3
    /\ gen.prefix # None

(***************************************************************************)
(* Two records that differ in the hostname only: an identifier is          *)
(* generated with each and both are parsed.  uuids holds the calls made,   *)
(* ret the results of parse_uuid_with_metadata.                            *)
(***************************************************************************)
HostSamples ==
    { <<"h", "o", "s", "t", "-", "0", "0", "1">>,
      <<"h", "o", "s", "t", "-", "0", "0", "2">>,
      <<"a", "b">>, <<"b", "A">>, <<>> }

\* metadata1 and metadata2: ClientMetadata::new(os_type, os_version, hostname)
HostRecords ==
    { << [os_type |-> o, os_version |-> v, hostname |-> h1, user_agent |-> None],
         [os_type |-> o, os_version |-> v, hostname |-> h2, user_agent |-> None] >> :
      o \in {"Linux", "IOS"}, v \in {<<5, 0>>, <<32, 16>>},
      h1 \in HostSamples, h2 \in HostSamples }

HostInit ==
    /\ clock = [hi |-> 101994, lo |-> 16777215]
    /\ gen \in [version : UuidVersion, format : {"Standard", "SimpleUppercase"}, prefix : {None}]
    /\ out = None
    /\ uuids = <<>>
    /\ parsed = None
    /\ ticks = 0
    /\ arg \in {Some(r) : r \in {r \in HostRecords : r[1].hostname # r[2].hostname}}
    /\ ret = <<>>

\* uuid1 = generator.generate_with_metadata(&metadata1), then uuid2 with metadata2
GenerateForHost ==
    /\ Len(uuids) < 2
    /\ \E rnd \in RandomSource :
        uuids' = Append(uuids,
                    [t |-> clock, rnd |-> rnd,
                     text |-> generate_with_metadata(
                                  gen, Unwrap(arg)[Len(uuids) + 1], now_v7(clock, rnd)).text])
    /\ Elapse
    /\ UNCHANGED <<gen, out, parsed, ticks, arg, ret>>

\* parse_uuid_with_metadata(&uuid1), then of &uuid2
ParseForHost ==
    /\ Len(uuids) = 2
    /\ Len(ret) < 2
    /\ ret' = Append(ret, parse_uuid_with_metadata(uuids[Len(ret) + 1].text))
    /\ UNCHANGED <<clock, gen, out, uuids, parsed, ticks, arg>>

HostNext == GenerateForHost \/ ParseForHost

HostSpec == HostInit /\ [][HostNext]_vars

\* both identifiers were parsed with metadata, and report the same family and version
SameOsExtracted ==
    /\ ret[1].ok /\ ret[2].ok
    /\ ret[1].metadata # None /\ ret[2].metadata # None
    /\ Unwrap(ret[1].metadata).os_type = Unwrap(ret[2].metadata).os_type
    /\ Unwrap(ret[1].metadata).os_version = Unwrap(ret[2].metadata).os_version

(***************************************************************************)
(* C16.  Different hostnames, as claimed: the identifiers of two records   *)
(* with the same family and version, no user agent and different hostnames *)
(* extract to equal os_type and os_version and to different extended_hash. *)
(***************************************************************************)
C16_DifferentHostnames ==
    Len(ret) = 2 =>
        /\ SameOsExtracted
        /\ Unwrap(ret[1].metadata).extended_hash # Unwrap(ret[2].metadata).extended_hash

(***************************************************************************)
(* C16, amended.  They extract to equal os_type and os_version, and to     *)
(* different extended_hash exactly when the 32-bit hashes of the two       *)
(* hostnames differ, as those of "host-001" and "host-002" do.             *)
(***************************************************************************)
C16_DifferentHostnameHashes ==
    Len(ret) = 2 =>
        LET h1 == Unwrap(arg)[1].hostname
            h2 == Unwrap(arg)[2].hostname
            differ == Unwrap(ret[1].metadata).extended_hash # Unwrap(ret[2].metadata).extended_hash
        IN  /\ SameOsExtracted
            /\ differ <=> (hash_to_u32(h1) # hash_to_u32(h2))
            /\ (Len(h1) = 8 /\ Len(h2) = 8) => differ

\* the identifiers of "host-001" and "host-002" have been parsed
C16_Witness ==
    /\ Len(ret) = 2
    /\ Len(Unwrap(arg)[1].hostname) = 8
    /\ Len(Unwrap(arg)[2].hostname) = 8
    /\ Unwrap(ret[1].metadata).extended_hash # Unwrap(ret[2].metadata).extended_hash

(***************************************************************************)
(* Several threads that share one generator and one metadata record by     *)
(* reference.  Each thread makes one call; a batch call runs element by    *)
(* element, so that the steps of the other threads come in between.  For   *)
(* the thread t: out[t] is the call, with the generator and the record it  *)
(* was given and the clock readings and random bytes it drew, uuids and    *)
(* ticks are the vector and the iterator of its batch, ret[t] is what the  *)
(* call returned.  parsed keeps the generator and the record as they were  *)
(* handed to the threads.                                                  *)
(***************************************************************************)
Threads == 1..MaxThreads

ThreadGenerators ==
    { [version |-> "V4", format |-> "Standard", prefix |-> None],
      [version |-> "V7", format |-> "SimpleUppercase", prefix |-> Some(<<"u", "s", "e", "r", "_">>)] }

\* two outputs of the random source
ThreadRandoms == {RandomBytes(0), RandomBytes(1)}

\* the counts given to the batch calls of the threads
ThreadBatchCounts == {0, 2}

\* texts given to parse_uuid_with_metadata
ThreadTexts == {Hyphenated(ForeignUuid(7)), NotAUuid}

\* mutant: one vector shared by the calls of all threads
SlotShared(t) == 1

\* the Vec a batch call collects into is the call's own
Slot(t) == t

\* generate_batch(count) of one thread by itself, drawing draws
generate_batch(self, draws) ==
    [i \in 1..Len(draws) |-> generate(self, new_v4(draws[i].rnd), now_v7(draws[i].t, draws[i].rnd))]

\* generate_batch_with_metadata(count, metadata) of one thread by itself
generate_batch_with_metadata(self, metadata, draws) ==
    [i \in 1..Len(draws) |->
        generate_with_metadata(self, metadata, now_v7(draws[i].t, draws[i].rnd)).text]

ThreadInit ==
    /\ clock = [hi |-> 101994, lo |-> 16777215]
    /\ gen \in ThreadGenerators
    /\ arg = Some(BatchMetadata)
    /\ out = [t \in Threads |-> None]
    /\ uuids = [t \in Threads |-> <<>>]
    /\ ticks = [t \in Threads |-> 0]
    /\ ret = [t \in Threads |-> None]
    /\ parsed = Some([self |-> gen, metadata |-> BatchMetadata])

\* the call record of thread t
Call(op, count, draws, input) ==
    Some([op |-> op, self |-> gen, metadata |-> Unwrap(arg), count |-> count,
          draws |-> draws, input |-> input])

\* thread t: generator.generate()
ThreadGenerate(t) ==
    /\ out[t] = None
    /\ \E rnd \in ThreadRandoms :
        /\ out' = [out EXCEPT ![t] = Call("generate", 1, <<[t |-> clock, rnd |-> rnd]>>, <<>>)]
        /\ ret' = [ret EXCEPT ![t] = Some(generate(gen, new_v4(rnd), now_v7(clock, rnd)))]
    /\ UNCHANGED <<clock, gen, uuids, parsed, ticks, arg>>

\* thread t: generator.generate_with_metadata(&metadata)
ThreadGenerateWithMetadata(t) ==
    /\ out[t] = None
    /\ \E rnd \in ThreadRandoms :
        /\ out' = [out EXCEPT ![t] =
                      Call("generate_with_metadata", 1, <<[t |-> clock, rnd |-> rnd]>>, <<>>)]
        /\ ret' = [ret EXCEPT ![t] =
                      Some(generate_with_metadata(gen, Unwrap(arg), now_v7(clock, rnd)).text)]
    /\ UNCHANGED <<clock, gen, uuids, parsed, ticks, arg>>

\* thread t: parse_uuid_with_metadata(input)
ThreadParse(t) ==
    /\ out[t] = None
    /\ \E input \in ThreadTexts :
        /\ out' = [out EXCEPT ![t] = Call("parse_uuid_with_metadata", 1, <<>>, input)]
        /\ ret' = [ret EXCEPT ![t] = Some(parse_uuid_with_metadata(input))]
    /\ UNCHANGED <<clock, gen, uuids, parsed, ticks, arg>>

\* thread t enters generate_batch or generate_batch_with_metadata: the range
\* and the empty vector
ThreadBatchBegin(t) ==
    /\ out[t] = None
    /\ \E op \in {"generate_batch", "generate_batch_with_metadata"}, count \in ThreadBatchCounts :
        out' = [out EXCEPT ![t] = Call(op, count, <<>>, <<>>)]
    /\ uuids' = [uuids EXCEPT ![Slot(t)] = <<>>]
    /\ ticks' = [ticks EXCEPT ![t] = 0]
    /\ UNCHANGED <<clock, gen, parsed, arg, ret>>

\* thread t: one element of the batch, generated and pushed
ThreadBatchElement(t) ==
    /\ out[t] # None
    /\ ret[t] = None
    /\ RangeHasNext(ticks[t], Unwrap(out[t]).count)
    /\ \E rnd \in ThreadRandoms :
        LET call == Unwrap(out[t])
            text == IF call.op = "generate_batch"
                    THEN generate(gen, new_v4(rnd), now_v7(clock, rnd))
                    ELSE generate_with_metadata(gen, Unwrap(arg), now_v7(clock, rnd)).text
        IN  /\ uuids' = [uuids EXCEPT ![Slot(t)] = Append(@, text)]
            /\ out' = [out EXCEPT ![t] =
                          Some([call EXCEPT !.draws = Append(@, [t |-> clock, rnd |-> rnd])])]
    /\ ticks' = [ticks EXCEPT ![t] = @ + 1]
    /\ UNCHANGED <<clock, gen, parsed, arg, ret>>

\* thread t: the batch call returns its vector
ThreadBatchCollect(t) ==
    /\ out[t] # None
    /\ ret[t] = None
    /\ ~RangeHasNext(ticks[t], Unwrap(out[t]).count)
    /\ ret' = [ret EXCEPT ![t] = Some(uuids[Slot(t)])]
    /\ UNCHANGED <<clock, gen, out, uuids, parsed, ticks, arg>>

ThreadNext ==
    \E t \in Threads :
        \/ ThreadGenerate(t)
        \/ ThreadGenerateWithMetadata(t)
        \/ ThreadParse(t)
        \/ ThreadBatchBegin(t)
        \/ ThreadBatchElement(t)
        \/ ThreadBatchCollect(t)

ThreadSpec == ThreadInit /\ [][ThreadNext]_vars

\* what the call returns when no other thread runs: the function of the
\* generator and the record it was given and of what it drew
InIsolation(call) ==
    CASE call.op = "generate" ->
             generate(call.self, new_v4(call.draws[1].rnd),
                      now_v7(call.draws[1].t, call.draws[1].rnd))
      [] call.op = "generate_with_metadata" ->
             generate_with_metadata(call.self, call.metadata,
                                    now_v7(call.draws[1].t, call.draws[1].rnd)).text
      [] call.op = "generate_batch" -> generate_batch(call.self, call.draws)
      [] call.op = "generate_batch_with_metadata" ->
             generate_batch_with_metadata(call.self, call.metadata, call.draws)
      [] call.op = "parse_uuid_with_metadata" -> parse_uuid_with_metadata(call.input)

(***************************************************************************)
(* C18.  Statelessness under concurrency: in every interleaving of the     *)
(* calls of the threads the shared generator and the shared record stay as *)
(* they were handed over, and what a call returned is what it returns by   *)
(* itself from the same clock readings and random bytes.                   *)
(***************************************************************************)
C18_Stateless ==
    /\ gen = Unwrap(parsed).self
    /\ Unwrap(arg) = Unwrap(parsed).metadata
    /\ \A t \in Threads :
        ret[t] # None =>
            /\ Unwrap(out[t]).self = Unwrap(parsed).self
            /\ Unwrap(out[t]).metadata = Unwrap(parsed).metadata
            /\ Unwrap(ret[t]) = InIsolation(Unwrap(out[t]))

\* a batch call has returned while the batch call of another thread, begun
\* before, is at its second element
C18_Witness ==
    /\ ret[1] # None
    /\ Unwrap(out[1]).op = "generate_batch"
    /\ Len(Unwrap(ret[1])) = 2
    /\ out[2] # None
    /\ Unwrap(out[2]).op = "generate_batch_with_metadata"
    /\ ret[2] = None
    /\ ticks[2] = 1

(***************************************************************************)
(* The constructors and the builder methods of UuidGenerator.  gen is the  *)
(* generator at the end of the chain, out the generator the last builder   *)
(* call was made on, arg that call, ret the constructor the chain started  *)
(* from, ticks the number of builder calls, uuids what the generator at    *)
(* the end of the chain generated.                                         *)
(***************************************************************************)
new(version, format) == [version |-> version, format |-> format, prefix |-> None]

v4 == new("V4", "Standard")

v7 == new("V7", "Standard")

default == v4

\* mutant: the generator rebuilt with Self::new, which drops the prefix
with_format_by_new(self, format) == new(self.version, format)

with_format(self, format) == [self EXCEPT !.format = format]

with_prefix(self, prefix) == [self EXCEPT !.prefix = Some(prefix)]

without_prefix(self) == [self EXCEPT !.prefix = None]

BuilderPrefixes == { <<"t", "e", "s", "t", "_">>, <<"i", "d", "_">>, <<>> }

BuilderInit ==
    /\ clock = [hi |-> 101994, lo |-> 16777215]
    /\ \/ ret = Some("v4") /\ gen = v4
       \/ ret = Some("v7") /\ gen = v7
       \/ ret = Some("default") /\ gen = default
       \/ ret = Some("new") /\ \E v \in UuidVersion, f \in UuidFormat : gen = new(v, f)
    /\ out = None
    /\ uuids = <<>>
    /\ parsed = None
    /\ ticks = 0
    /\ arg = None

\* generator.with_format(format)
WithFormat ==
    /\ ticks < MaxChain
    /\ uuids = <<>>
    /\ \E format \in UuidFormat :
        /\ gen' = with_format(gen, format)
        /\ arg' = Some([op |-> "with_format", format |-> format, prefix |-> <<>>])
    /\ out' = Some(gen)
    /\ ticks' = ticks + 1
    /\ UNCHANGED <<clock, uuids, parsed, ret>>

\* generator.with_prefix(prefix)
WithPrefix ==
    /\ ticks < MaxChain
    /\ uuids = <<>>
    /\ \E prefix \in BuilderPrefixes :
        /\ gen' = with_prefix(gen, prefix)
        /\ arg' = Some([op |-> "with_prefix", format |-> gen.format, prefix |-> prefix])
    /\ out' = Some(gen)
    /\ ticks' = ticks + 1
    /\ UNCHANGED <<clock, uuids, parsed, ret>>

\* generator.without_prefix()
WithoutPrefix ==
    /\ ticks < MaxChain
    /\ uuids = <<>>
    /\ gen' = without_prefix(gen)
    /\ arg' = Some([op |-> "without_prefix", format |-> gen.format, prefix |-> <<>>])
    /\ out' = Some(gen)
    /\ ticks' = ticks + 1
    /\ UNCHANGED <<clock, uuids, parsed, ret>>

\* generator.generate() at the end of the chain
BuilderGenerate ==
    /\ uuids = <<>>
    /\ \E rnd \in RandomSource :
        uuids' = <<generate(gen, new_v4(rnd), now_v7(clock, rnd))>>
    /\ UNCHANGED <<clock, gen, out, parsed, ticks, arg, ret>>

BuilderNext == WithFormat \/ WithPrefix \/ WithoutPrefix \/ BuilderGenerate

BuilderSpec == BuilderInit /\ [][BuilderNext]_vars

\* the last builder call was op
LastCall(op) == arg # None /\ Unwrap(arg).op = op

(***************************************************************************)
(* C19.  Builder derivation changes one field only: with_format(f) gives   *)
(* format f and the version and prefix of before, with_prefix(p) gives     *)
(* prefix p and the version and format of before, without_prefix() gives   *)
(* no prefix and the version and format of before, and what is generated   *)
(* after it has no prefix; v4(), v7() and default() have the Standard      *)
(* format and no prefix, and default() is of version 4.                    *)
(***************************************************************************)
C19_BuilderFrame ==
    /\ LastCall("with_format") =>
           gen = [version |-> Unwrap(out).version, format |-> Unwrap(arg).format,
                  prefix |-> Unwrap(out).prefix]
    /\ LastCall("with_prefix") =>
           gen = [version |-> Unwrap(out).version, format |-> Unwrap(out).format,
                  prefix |-> Some(Unwrap(arg).prefix)]
    /\ LastCall("without_prefix") =>
           /\ gen = [version |-> Unwrap(out).version, format |-> Unwrap(out).format,
                     prefix |-> None]
           /\ uuids # <<>> =>
                  /\ Len(uuids[1]) = BodyLen(gen.format)
                  /\ parse_uuid(uuids[1]).ok
    /\ (ticks = 0 /\ ret # Some("new")) =>
           /\ gen.format = "Standard"
           /\ gen.prefix = None
           /\ gen.version = (IF ret = Some("v7") THEN "V7" ELSE "V4")

\* with_prefix("test_") then without_prefix(), and an identifier generated
C19_Witness ==
    /\ LastCall("without_prefix")
    /\ Unwrap(out).prefix = Some(<<"t", "e", "s", "t", "_">>)
    /\ uuids # <<>>
    /\ Len(uuids[1]) = 36

(***************************************************************************)
(* hash_to_u32 and hash_to_u16 as pure functions of a string.              *)
(***************************************************************************)
HashAlphabet == {"a", "~", " ", "0"}

\* the strings of at most n letters of the alphabet
RECURSIVE StringsUpTo(_)
StringsUpTo(n) ==
    IF n = 0 THEN {<<>>}
    ELSE LET shorter == StringsUpTo(n - 1)
         IN  shorter \cup {Append(s, c) : s \in shorter, c \in HashAlphabet}

TestHostname == <<"t", "e", "s", "t", "-", "h", "o", "s", "t", "n", "a", "m", "e">>

HashInputs ==
    StringsUpTo(MaxStrLen) \cup HostSamples \cup
    {TestHostname, TestHostname \o TestHostname, extended_input(BatchMetadata)}

HashInit ==
    /\ Idle
    /\ arg \in {Some(s) : s \in HashInputs}
    /\ ret = [h32 |-> None, h16 |-> None]

\* hash_to_u32(input)
HashToU32 ==
    /\ ret.h32 = None
    /\ ret' = [ret EXCEPT !.h32 = Some(hash_to_u32(Unwrap(arg)))]
    /\ UNCHANGED <<clock, gen, out, uuids, parsed, ticks, arg>>

\* hash_to_u16(input)
HashToU16 ==
    /\ ret.h16 = None
    /\ ret' = [ret EXCEPT !.h16 = Some(hash_to_u16(Unwrap(arg)))]
    /\ UNCHANGED <<clock, gen, out, uuids, parsed, ticks, arg>>

HashNext == HashToU32 \/ HashToU16

HashSpec == HashInit /\ [][HashNext]_vars

\* (h * 33 + byte) mod 2^32 by multiplication, on the 16-bit halves of h
Times33Plus(h, byte) ==
    LET low == h.lo * 33 + byte
    IN  [hi |-> (h.hi * 33 + low \div 65536) % 65536, lo |-> low % 65536]

\* the reference accumulator: h = 5381, then h = (h * 33 + byte) mod 2^32
RECURSIVE ReferenceHash(_, _, _)
ReferenceHash(h, bytes, i) ==
    IF i > Len(bytes) THEN h
    ELSE LET next == Times33Plus(h, bytes[i])
         IN  IF next.lo >= 0 THEN ReferenceHash(next, bytes, i + 1) ELSE next

(***************************************************************************)
(* C20.  Hash primitives match the reference: hash_to_u32(s) is the        *)
(* accumulator h of h = 5381, h = (h * 33 + byte) mod 2^32 over the bytes  *)
(* of s (5381 for the empty string), and hash_to_u16(s) is                 *)
(* (h XOR (h >> 16)) mod 2^16 for that h.                                  *)
(***************************************************************************)
C20_HashReference ==
    LET h == ReferenceHash([hi |-> 0, lo |-> 5381], StrBytes(Unwrap(arg)), 1)
    IN  /\ ret.h32 # None => Unwrap(ret.h32) = h
        /\ ret.h16 # None => Unwrap(ret.h16) = BitXor(h.hi, h.lo)
        /\ (ret.h32 # None /\ Unwrap(arg) = <<>>) => Unwrap(ret.h32) = [hi |-> 0, lo |-> 5381]

\* both hashes of a string long enough for the accumulator to wrap
C20_Witness ==
    /\ ret.h32 # None
    /\ ret.h16 # None
    /\ Unwrap(arg) = TestHostname
    /\ Unwrap(ret.h32).hi > 0

(***************************************************************************)
(* clean_uuid_input on texts built from decoration tokens.                 *)
(***************************************************************************)
ShortBody == <<"a", "b">>

Tokens == {UrnPrefix, UuidPrefix, <<"{">>, <<"}">>, ShortBody}

\* the sequences of at most n tokens
RECURSIVE TokenSeqs(_)
TokenSeqs(n) ==
    IF n = 0 THEN {<<>>}
    ELSE LET shorter == TokenSeqs(n - 1)
         IN  shorter \cup {Append(ts, t) : ts \in shorter, t \in Tokens}

\* the text a token sequence spells
RECURSIVE Flatten(_)
Flatten(ts) == IF ts = <<>> THEN <<>> ELSE Head(ts) \o Flatten(Tail(ts))

\* the receiver of each call of the chain in clean_uuid_input, the input first
CleanSteps(input) ==
    LET s1 == TrimStartMatches(input, UrnPrefix)
        s2 == TrimStartMatches(s1, UuidPrefix)
        s3 == TrimStartMatches(s2, <<"{">>)
    IN  <<input, s1, s2, s3, TrimEndMatches(s3, <<"}">>)>>

CleanInit ==
    /\ Idle
    /\ arg \in {Some(ts) : ts \in TokenSeqs(MaxTokens)}
    /\ ret = [steps |-> None, again |-> None]

\* clean_uuid_input(input)
CleanUuidInput ==
    /\ out = None
    /\ out' = Some(clean_uuid_input(Flatten(Unwrap(arg))))
    /\ ret' = [ret EXCEPT !.steps = Some(CleanSteps(Flatten(Unwrap(arg))))]
    /\ UNCHANGED <<clock, gen, uuids, parsed, ticks, arg>>

\* clean_uuid_input on the text it returned
CleanAgain ==
    /\ out # None
    /\ ret.again = None
    /\ ret' = [ret EXCEPT !.again = Some(clean_uuid_input(Unwrap(out)))]
    /\ UNCHANGED <<clock, gen, out, uuids, parsed, ticks, arg>>

CleanNext == CleanUuidInput \/ CleanAgain

CleanSpec == CleanInit /\ [][CleanNext]_vars

\* the tokens of ts after its longest run of the token t at the front
RECURSIVE AfterRun(_, _)
AfterRun(ts, t) == IF ts # <<>> /\ Head(ts) = t THEN AfterRun(Tail(ts), t) ELSE ts

\* n copies of the character c
RECURSIVE Rep(_, _)
Rep(c, n) == IF n = 0 THEN <<>> ELSE <<c>> \o Rep(c, n - 1)

\* r is s without the opening braces at its front and the closing braces at its end
BracesStripped(s, r) ==
    /\ ~StartsWith(r, <<"{">>)
    /\ ~EndsWith(r, <<"}">>)
    /\ \E i, j \in 0..Len(s) : s = Rep("{", i) \o r \o Rep("}", j)

(***************************************************************************)
(* C21.  As claimed: in normalization at most one of the two scheme-strip  *)
(* steps removes characters, for every input text.                         *)
(***************************************************************************)
C21_AtMostOneSchemeStep ==
    ret.steps # None =>
        LET s == Unwrap(ret.steps)
        IN  ~(s[2] # s[1] /\ s[3] # s[2])

(***************************************************************************)
(* C21, amended.  Both scheme-strip steps remove characters exactly when   *)
(* the input is one or more "urn:uuid:" followed by "uuid:"; for every     *)
(* other input at most one of them does.  The braces are stripped from     *)
(* what the scheme steps leave, whether or not a scheme was stripped.      *)
(***************************************************************************)
C21_BothOnlyUrnThenUuid ==
    ret.steps # None =>
        LET s == Unwrap(ret.steps)
            ts == Unwrap(arg)
            rest == AfterRun(ts, UrnPrefix)
        IN  /\ (s[2] # s[1] /\ s[3] # s[2]) <=>
                   (rest # ts /\ rest # <<>> /\ Head(rest) = UuidPrefix)
            /\ BracesStripped(s[3], Unwrap(out))

\* both steps have matched on one input, and braces were stripped behind them
C21_Witness ==
    /\ ret.steps # None
    /\ Unwrap(arg) = <<UrnPrefix, UuidPrefix, <<"{">>>>
    /\ Unwrap(out) = <<>>

\* the text starts with one of the two scheme prefixes
StartsWithScheme(s) == StartsWith(s, UrnPrefix) \/ StartsWith(s, UuidPrefix)

\* in the token sequence a scheme prefix comes right after the run of "uuid:" or of
\* opening braces that the normalizer strips
SchemeBehindStripped(ts) ==
    LET r1 == AfterRun(ts, UrnPrefix)
        r2 == AfterRun(r1, UuidPrefix)
        r3 == AfterRun(r2, <<"{">>)
    IN  \/ r2 # r1 /\ r2 # <<>> /\ Head(r2) = UrnPrefix
        \/ r3 # r2 /\ r3 # <<>> /\ Head(r3) \in {UrnPrefix, UuidPrefix}

(***************************************************************************)
(* C25.  As claimed: normalization is idempotent and complete, for every   *)
(* input text t: clean_uuid_input(clean_uuid_input(t)) is                  *)
(* clean_uuid_input(t), and the normalized text never starts with          *)
(* "urn:uuid:", "uuid:" or '{' and never ends with '}'.                    *)
(***************************************************************************)
C25_IdempotentAndComplete ==
    /\ out # None =>
           /\ ~StartsWithScheme(Unwrap(out))
           /\ ~StartsWith(Unwrap(out), <<"{">>)
           /\ ~EndsWith(Unwrap(out), <<"}">>)
    /\ ret.again # None => Unwrap(ret.again) = Unwrap(out)

(***************************************************************************)
(* C25, amended.  The normalized text never starts with '{' and never      *)
(* ends with '}'.  It starts with a scheme prefix exactly when, in the     *)
(* input, a scheme prefix comes right after the stripped "uuid:" prefixes  *)
(* or the stripped opening braces ("uuid:urn:uuid:X", "{uuid:X"), and a    *)
(* second normalization returns the same text exactly when it does not.    *)
(***************************************************************************)
C25_CompleteOnBraces ==
    /\ out # None =>
           /\ ~StartsWith(Unwrap(out), <<"{">>)
           /\ ~EndsWith(Unwrap(out), <<"}">>)
           /\ StartsWithScheme(Unwrap(out)) <=> SchemeBehindStripped(Unwrap(arg))
    /\ ret.again # None =>
           (Unwrap(ret.again) = Unwrap(out) <=> ~StartsWithScheme(Unwrap(out)))

\* a text normalized twice, the second pass changing nothing, braces and prefix gone
C25_Witness ==
    /\ ret.again # None
    /\ Unwrap(arg) = <<UuidPrefix, <<"{">>, <<"}">>>>
    /\ Unwrap(out) = <<>>
    /\ Unwrap(ret.again) = <<>>

(***************************************************************************)
(* C22.  Documented byte layout of generate_with_metadata: the low nibble  *)
(* of byte 6 holds the 4-bit OS type code (byte 6 is 0x70 | code) and      *)
(* byte 7 holds the version as 4 bits major and 4 bits minor, for every    *)
(* record.                                                                 *)
(***************************************************************************)
C22_DocumentedLayout ==
    MetaCall =>
        LET m == Unwrap(Unwrap(out).metadata)
        IN  /\ Unwrap(out).uuid[6] = BitOr(112, OsTypeEncode(m.os_type))
            /\ Unwrap(out).uuid[7] =
                   BitOr(Shl(BitAnd(m.os_version[1], 15), 4, 8), BitAnd(m.os_version[2], 15))

(***************************************************************************)
(* C24.  parse_uuid_with_metadata agrees with parse_uuid on every input:   *)
(* it is an error exactly when parse_uuid is, then with no value and no    *)
(* metadata; otherwise it returns the value parse_uuid returns, with       *)
(* metadata read from that value: Some exactly for version nibble 7, the   *)
(* hostname hash being byte 9 of the value.                                *)
(***************************************************************************)
C24_ParsersAgree ==
    (ret # None /\ parsed # None) =>
        LET plain == Unwrap(ret)
            with == Unwrap(parsed)
        IN  /\ with.ok <=> plain.ok
            /\ ~with.ok => DOMAIN with = {"ok"}
            /\ with.ok =>
                   /\ with.value = plain.value
                   /\ with.metadata # None <=> Shr(plain.value[6], 4) = 7
                   /\ with.metadata # None =>
                          Unwrap(with.metadata).hostname_hash = plain.value[9]

\* both parsers have read a decorated version-7 text
C24_Witness ==
    /\ ret # None
    /\ parsed # None
    /\ Unwrap(arg) = Decorate("uuid:{X}", Simple(ForeignUuid(7)))
    /\ Unwrap(ret).ok
    /\ Unwrap(parsed).ok
    /\ Unwrap(parsed).metadata # None

(***************************************************************************)
(* Two generate_with_metadata calls, each with its own record.             *)
(***************************************************************************)
\* hostname and user agent: "ab" + "c", "a" + "bc", "abc" alone and with an empty
\* user agent, and two that spell something else
PairNames ==
    { <<<<"a", "b">>, Some(<<"c">>)>>,
      <<<<"a">>, Some(<<"b", "c">>)>>,
      <<<<"a", "b", "c">>, None>>,
      <<<<"a", "b", "c">>, Some(<<>>)>>,
      <<<<"a", "b">>, None>>,
      <<<<"h", "o", "s", "t", "-", "0", "0", "1">>, Some(<<"c">>)>> }

PairRecords ==
    { [os_type |-> o[1], os_version |-> o[2], hostname |-> n[1], user_agent |-> n[2]] :
      o \in {<<"Windows", <<10, 0>>>>, <<"IOS", <<32, 16>>>>}, n \in PairNames }

PairInit ==
    /\ clock = [hi |-> 101994, lo |-> 16777215]
    /\ gen \in {v7, with_prefix(with_format(v4, "SimpleUppercase"), <<"i", "d", "_">>)}
    /\ out = None
    /\ uuids = <<>>
    /\ parsed = None
    /\ ticks = 0
    /\ arg \in {Some(<<m1, m2>>) : m1 \in PairRecords, m2 \in PairRecords}
    /\ ret = None

\* generator.generate_with_metadata(&m1), then generator.generate_with_metadata(&m2)
GenerateForRecord ==
    /\ Len(uuids) < 2
    /\ \E rnd \in RandomSource :
        LET res == generate_with_metadata(gen, Unwrap(arg)[Len(uuids) + 1], now_v7(clock, rnd))
        IN  uuids' = Append(uuids, [t |-> clock, rnd |-> rnd,
                                    uuid |-> res.custom_uuid, text |-> res.text])
    /\ Elapse
    /\ UNCHANGED <<gen, out, parsed, ticks, arg, ret>>

PairNext == GenerateForRecord

PairSpec == PairInit /\ [][PairNext]_vars

\* the bytes and bits the record is written to
PayloadOf(uuid) ==
    <<uuid[6] % 16, uuid[7], uuid[9], uuid[10], uuid[11], uuid[12], uuid[13]>>

(***************************************************************************)
(* C26.  Payload bytes are a function of the record alone: two calls with  *)
(* one record give the same low nibble of byte 6 and the same bytes 7, 9   *)
(* and 10-13, whatever the clock readings and the random draws; made in    *)
(* one millisecond, the two identifiers differ at most in the low six bits *)
(* of byte 8 and in bytes 14 and 15.                                       *)
(***************************************************************************)
C26_PayloadOfRecord ==
    (Len(uuids) = 2 /\ Unwrap(arg)[1] = Unwrap(arg)[2]) =>
        /\ PayloadOf(uuids[1].uuid) = PayloadOf(uuids[2].uuid)
        /\ uuids[1].t = uuids[2].t =>
               /\ \A i \in (0..15) \ {8, 14, 15} : uuids[1].uuid[i] = uuids[2].uuid[i]
               /\ uuids[1].uuid[8] \div 64 = uuids[2].uuid[8] \div 64

\* one record, two clock readings and two different random draws
C26_Witness ==
    /\ Len(uuids) = 2
    /\ Unwrap(arg)[1] = Unwrap(arg)[2]
    /\ uuids[1].t # uuids[2].t
    /\ \A i \in {7, 9, 10, 13, 14} : uuids[1].rnd[i] # uuids[2].rnd[i]
    /\ uuids[1].text # uuids[2].text

\* hostname followed by the user agent, if there is one
Spelled(m) == m.hostname \o (IF m.user_agent = None THEN <<>> ELSE Unwrap(m.user_agent))

(***************************************************************************)
(* C27.  The extended hash depends only on the concatenation of hostname   *)
(* and user agent: two records that spell the same string ("ab" + "c",     *)
(* "a" + "bc", "abc" with no user agent) embed the same bytes 10-13, and   *)
(* no user agent embeds the same as an empty user agent.                   *)
(***************************************************************************)
C27_ConcatenationOnly ==
    (Len(uuids) = 2 /\ Spelled(Unwrap(arg)[1]) = Spelled(Unwrap(arg)[2])) =>
        \A i \in 10..13 : uuids[1].uuid[i] = uuids[2].uuid[i]

\* "ab" + "c" and "a" + "bc", of different families, at two clock readings
C27_Witness ==
    /\ Len(uuids) = 2
    /\ Unwrap(arg)[1].hostname = <<"a", "b">>
    /\ Unwrap(arg)[1].user_agent = Some(<<"c">>)
    /\ Unwrap(arg)[2].hostname = <<"a">>
    /\ Unwrap(arg)[1].os_type # Unwrap(arg)[2].os_type
    /\ uuids[1].t # uuids[2].t
    /\ uuids[1].uuid[9] # uuids[2].uuid[9]

(***************************************************************************)
(* hash_to_u32 of two hostnames that differ in one byte, as embedded in    *)
(* bytes 10-13.                                                            *)
(***************************************************************************)
FlipChars == HashAlphabet \cup {"2", "A"}

FlipBases ==
    (StringsUpTo(MaxStrLen) \ {<<>>}) \cup
    {<<"h", "o", "s", "t", "-", "0", "0", "1">>, TestHostname \o TestHostname}

\* a hostname and the same hostname with another character at one position
FlipPairs ==
    UNION { { <<s, PutAt(s, x[1], x[2])>> :
                x \in {y \in (1..Len(s)) \X FlipChars : s[y[1]] # y[2]} } :
            s \in FlipBases }

FlipInit ==
    /\ Idle
    /\ arg \in {Some(p) : p \in FlipPairs}
    /\ ret = [first |-> None, second |-> None]

\* hash_to_u32(&extended_input).to_be_bytes() for the first hostname
EmbedFirst ==
    /\ ret.first = None
    /\ ret' = [ret EXCEPT !.first = Some(ToBeBytes(hash_to_u32(Unwrap(arg)[1])))]
    /\ UNCHANGED <<clock, gen, out, uuids, parsed, ticks, arg>>

\* the same for the second hostname
EmbedSecond ==
    /\ ret.second = None
    /\ ret' = [ret EXCEPT !.second = Some(ToBeBytes(hash_to_u32(Unwrap(arg)[2])))]
    /\ UNCHANGED <<clock, gen, out, uuids, parsed, ticks, arg>>

FlipNext == EmbedFirst \/ EmbedSecond

FlipSpec == FlipInit /\ [][FlipNext]_vars

(***************************************************************************)
(* C28.  hash_to_u32 never collides on strings that differ in exactly one  *)
(* byte position: two strings of one length, equal except at one position, *)
(* have different 32-bit hashes, so the four bytes embedded for them       *)
(* differ, as for "host-001" and "host-002".                               *)
(***************************************************************************)
C28_OneByteNoCollision ==
    (ret.first # None /\ ret.second # None) => Unwrap(ret.first) # Unwrap(ret.second)

\* two hostnames of 26 bytes that differ in their first byte have been embedded
C28_Witness ==
    /\ ret.first # None
    /\ ret.second # None
    /\ Len(Unwrap(arg)[1]) = 26
    /\ Unwrap(arg)[1][1] # Unwrap(arg)[2][1]
    /\ Unwrap(ret.first)[4] # Unwrap(ret.second)[4]

(***************************************************************************)
(* setup_logging (logger/src/lib.rs) called from several threads.  The     *)
(* global dispatcher is that of the tracing crate: GLOBAL_INIT, set by     *)
(* compare-and-exchange in set_global_default, and EXISTS, stored after    *)
(* the dispatcher is written and read by has_been_set.                     *)
(***************************************************************************)
\* Directive::from_str succeeds: "debug" and "info" parse, a text with "[[" does not
DirectiveParses(dir) == dir \in {"debug", "info"}

EnvFilterOverrides ==
    { None,
      Some(<<"debug">>),
      Some(<<"invalid[[filter">>),
      Some(<<"info", "second[[filter", "invalid[[filter">>) }

\* mutant: every directive is parsed and the last failure is reported
LastInvalid(directives) ==
    LET bad == {i \in 1..Len(directives) : ~DirectiveParses(directives[i])}
    IN  IF bad = {} THEN None
        ELSE Some(directives[CHOOSE i \in bad : \A j \in bad : j <= i])

\* for dir in directives { dir.parse().map_err(..)? }: the directive the loop stops at
FirstInvalid(directives) ==
    LET bad == {i \in 1..Len(directives) : ~DirectiveParses(directives[i])}
    IN  IF bad = {} THEN None
        ELSE Some(directives[CHOOSE i \in bad : \A j \in bad : i <= j])

\* the directive setup_logging fails on, if any
InvalidDirective(override) ==
    IF override = None THEN None ELSE FirstInvalid(Unwrap(override))

Unset == [init |-> "UNINITIALIZED", exists |-> FALSE, dispatch |-> None]

\* a dispatcher installed by other code of the process, before any call
SetElsewhere == [init |-> "INITIALIZED", exists |-> TRUE, dispatch |-> Some(0)]

LoggerInit ==
    /\ clock = [hi |-> 0, lo |-> 0]
    /\ gen = DefaultGenerator
    /\ uuids = <<>>
    /\ ticks = 0
    /\ out \in {Unset, SetElsewhere}
    /\ arg \in [Threads -> EnvFilterOverrides]
    /\ parsed = [t \in Threads |-> [pc |-> "start", began |-> None]]
    /\ ret = [t \in Threads |-> None]

\* from the entry to the registry: the directives are parsed, the layers are built
BuildRegistry(t) ==
    /\ parsed[t].pc = "start"
    /\ IF InvalidDirective(arg[t]) # None
       THEN /\ ret' = [ret EXCEPT ![t] =
                          Some([ok |-> FALSE, kind |-> "InvalidEnvFilter",
                                directive |-> Unwrap(InvalidDirective(arg[t]))])]
            /\ parsed' = [parsed EXCEPT ![t] = [pc |-> "done", began |-> Some(out)]]
       ELSE /\ ret' = ret
            /\ parsed' = [parsed EXCEPT ![t] = [pc |-> "built", began |-> Some(out)]]
    /\ UNCHANGED <<clock, gen, out, uuids, ticks, arg>>

\* if tracing::dispatcher::has_been_set() { warn!(..) }, and Ok(LoggingGuard)
HasBeenSet(t) ==
    /\ parsed[t].pc = "built"
    /\ IF out.exists
       THEN /\ ret' = [ret EXCEPT ![t] = Some([ok |-> TRUE])]
            /\ parsed' = [parsed EXCEPT ![t].pc = "done"]
       ELSE /\ ret' = ret
            /\ parsed' = [parsed EXCEPT ![t].pc = "unset"]
    /\ UNCHANGED <<clock, gen, out, uuids, ticks, arg>>

\* set_global_default(registry): the compare-and-exchange on GLOBAL_INIT, and the
\* SetGlobalSubscriber error when it fails
SetGlobalDefault(t) ==
    /\ parsed[t].pc = "unset"
    /\ IF out.init = "UNINITIALIZED"
       THEN /\ out' = [out EXCEPT !.init = "INITIALIZING", !.dispatch = Some(t)]
            /\ parsed' = [parsed EXCEPT ![t].pc = "installing"]
            /\ ret' = ret
       ELSE /\ out' = out
            /\ parsed' = [parsed EXCEPT ![t].pc = "done"]
            /\ ret' = [ret EXCEPT ![t] = Some([ok |-> FALSE, kind |-> "SetGlobalSubscriber"])]
    /\ UNCHANGED <<clock, gen, uuids, ticks, arg>>

\* the end of set_global_default: INITIALIZED and EXISTS are stored; Ok(LoggingGuard)
Installed(t) ==
    /\ parsed[t].pc = "installing"
    /\ out' = [out EXCEPT !.init = "INITIALIZED", !.exists = TRUE]
    /\ parsed' = [parsed EXCEPT ![t].pc = "done"]
    /\ ret' = [ret EXCEPT ![t] = Some([ok |-> TRUE])]
    /\ UNCHANGED <<clock, gen, uuids, ticks, arg>>

LoggerNext ==
    \E t \in Threads : BuildRegistry(t) \/ HasBeenSet(t) \/ SetGlobalDefault(t) \/ Installed(t)

LoggerSpec == LoggerInit /\ [][LoggerNext]_vars

\* the directives of the call of t that do not parse
BadDirectives(t) ==
    IF arg[t] = None THEN {}
    ELSE {i \in 1..Len(Unwrap(arg[t])) : ~DirectiveParses(Unwrap(arg[t])[i])}

(***************************************************************************)
(* C29.  setup_logging fails before touching global state on a bad filter: *)
(* a call with a directive that does not parse returns Err of kind         *)
(* InvalidEnvFilter naming the first such directive, and installs no       *)
(* global subscriber; a call with valid configuration that starts when a   *)
(* global dispatcher is set returns Ok and leaves that dispatcher in       *)
(* place.                                                                  *)
(***************************************************************************)
C29_BadFilterBeforeGlobalState ==
    \A t \in Threads :
        /\ BadDirectives(t) # {} =>
               /\ out.dispatch # Some(t)
               /\ parsed[t].pc \in {"start", "done"}
               /\ ret[t] # None =>
                      /\ ~Unwrap(ret[t]).ok
                      /\ Unwrap(ret[t]).kind = "InvalidEnvFilter"
                      /\ \E i \in BadDirectives(t) :
                             /\ Unwrap(ret[t]).directive = Unwrap(arg[t])[i]
                             /\ \A j \in BadDirectives(t) : i <= j
        /\ (BadDirectives(t) = {} /\ ret[t] # None /\ Unwrap(parsed[t].began).exists) =>
               /\ Unwrap(ret[t]).ok
               /\ out = Unwrap(parsed[t].began)

\* one call has failed on the second of its three directives with nothing installed,
\* and another, with a valid filter, has then installed the subscriber
C29_Witness ==
    /\ arg[1] = Some(<<"info", "second[[filter", "invalid[[filter">>)
    /\ ret[1] # None
    /\ Unwrap(parsed[1].began) = Unset
    /\ arg[2] = Some(<<"debug">>)
    /\ ret[2] = Some([ok |-> TRUE])
    /\ out.dispatch = Some(2)

(***************************************************************************)
(* C30.  Concurrent initialisation: in every interleaving of setup_logging *)
(* calls with valid configuration, every call returns Ok, none fails with  *)
(* SetGlobalSubscriber, and once the calls have returned exactly one       *)
(* subscriber is installed.                                                *)
(***************************************************************************)
C30_EveryCallOk ==
    \A t \in Threads :
        (BadDirectives(t) = {} /\ ret[t] # None) =>
            /\ Unwrap(ret[t]).ok
            /\ out.dispatch # None

====
